---- MODULE Spec2Model ----
(***************************************************************************)
(* Model of the telemetry-link core of QSGRaceComputer:                    *)
(*   - the frame codec  (components/qsgrc/messages/msgpack.py, MsgPack),   *)
(*   - the transmit scheduler with its pending-ack table                   *)
(*     (components/qsgrc/simple_service/lora.py, LoRaService; the same     *)
(*     code is in bases/qsgrc/lora_service/core.py, LoRa_Service),         *)
(*   - the alert engine (components/qsgrc/alerts/core.py, MonitorAlerts),  *)
(*   - the radio driver (components/qsgrc/RYLR896/core.py, RLYR896).       *)
(* A text is a sequence of one-character strings, so that formatting and   *)
(* parsing of frames are computed character by character.                  *)
(***************************************************************************)
EXTENDS Integers, Sequences, FiniteSets, TLC

VARIABLES
    nack_tag,               \* MsgPack.nack_tag
    ack_tag,                \* MsgPack.ack_tag
    buffers,                \* MsgPack.buffers: tag -> (received, total, slots)
    processed_data,         \* MsgPack.processed_data (queue of record texts)
    ack_stream,             \* MsgPack.ack_stream / LoRaService.acks_to_send
    stream,                 \* frames on their way from an encoder to the decoder
    record,                 \* the record text the producer of that stream holds
    immediate_queue,        \* LoRaService.immediate_queue
    high_priority_queue,    \* LoRaService.high_priority_queue
    low_priority_queue,     \* LoRaService.low_priority_queue
    pending_acks,           \* LoRaService.pending_acks, in insertion order
    high_priority_count,    \* local of LoRaService.__transmit_task
    monitor_errors,         \* parity of the "Exception in Resend Monitor" log lines
    sends,                  \* number of records handed to the encoder so far
    rules,                  \* MonitorAlerts.rules: key -> (condition, hold, threshold)
    alert_conditions,       \* MonitorAlerts.alert_conditions: key -> bool
    out_stream,             \* MonitorAlerts.out_stream (queue of alert records)
    ready,                  \* RLYR896.ready
    wire,                   \* the commands written to the serial port, in order
    command_response,       \* RLYR896.command_response (queue of reply lines)
    radio_pc,               \* where start() or the running API call stands
    radio_config,           \* RLYR896's cached configuration
    in_stream,              \* RLYR896.received_messages = MsgPack.in_stream
    running,                \* LoRaService.running
    msgpack_running,        \* MsgPack.running, set with the creation of __loop
    tasks,                  \* LoRaService.tasks: the names of the tasks in the list
    task_pc,                \* where each of the four service tasks stands
    stop_pc,                \* where LoRaService.stop() stands
    send_lock,              \* RLYR896.send_lock is held
    callers,                \* where each caller of RLYR896.__send stands
    radio_owed,             \* commands the radio module has not answered yet
    sample_stream,          \* AlertService.in_stream (queue of samples)
    alert_monitors,         \* AlertService.alert_monitors: name -> monitor
    last,                   \* history: the last operation and what it did
    hist                    \* history: counters and texts the claims speak about

vars == <<nack_tag, ack_tag, buffers, processed_data, ack_stream, stream, record,
          immediate_queue, high_priority_queue, low_priority_queue,
          pending_acks, high_priority_count, monitor_errors, sends,
          rules, alert_conditions, out_stream,
          ready, wire, command_response, radio_pc, radio_config, in_stream,
          running, msgpack_running, tasks, task_pc, stop_pc,
          send_lock, callers, radio_owed,
          sample_stream, alert_monitors,
          last, hist>>

codec_vars == <<nack_tag, ack_tag, buffers, processed_data, ack_stream, stream,
                record>>
svc_vars == <<immediate_queue, high_priority_queue, low_priority_queue,
              pending_acks, high_priority_count, monitor_errors, sends>>
alert_vars == <<rules, alert_conditions, out_stream>>

radio_vars == <<ready, wire, command_response, radio_pc, radio_config, in_stream>>
link_vars == <<codec_vars, svc_vars>>
run_vars == <<running, msgpack_running, tasks, task_pc, stop_pc>>
cmd_vars == <<send_lock, callers, radio_owed>>
mon_vars == <<sample_stream, alert_monitors>>

\* the state of the components the link core does not touch
ext_vars == <<alert_vars, radio_vars, run_vars, cmd_vars, mon_vars>>

----------------------------------------------------------------------------
(* Program constants *)

ack_threshold == 50
max_tag == 100
max_retries == 3
high_priority_send_limit == 5
resend_interval == 5

(* Bounds of the model *)

\* MsgPack.split_length is a configuration knob (220 by default, 40 in the
\* test fixture); the model runs the same code with a small value.
split_length == 2
MaxLen == 5          \* longest record text handed to the encoder
MaxQueue == 2        \* longest queue a producer will still append to
MaxEncodes == 2      \* record texts encoded in the codec specification
MaxSends == 3        \* transmit() calls in the pending-ack specification
MaxTxSends == 8      \* transmit() calls in the transmit-loop specification
MaxReceived == 3     \* largest received count kept in a reassembly buffer
MaxPings == 2        \* pings of start() that the log of writes keeps
MaxLog == 12         \* events of start() that the history keeps
MaxCommands == 5     \* commands other than pings written to the serial port

----------------------------------------------------------------------------
(* Texts *)

Digits == <<"0", "1", "2", "3", "4", "5", "6", "7", "8", "9">>

IsDigit(c) == \E i \in 1..10 : Digits[i] = c

DigitVal(c) == (CHOOSE i \in 1..10 : Digits[i] = c) - 1

RECURSIVE IntToStr(_)
\* str(int) for a non-negative int
IntToStr(n) ==
    IF n < 10 THEN <<Digits[n + 1]>>
    ELSE IntToStr(n \div 10) \o <<Digits[(n % 10) + 1]>>

RECURSIVE StrToInt(_)
\* int(str) for a non-empty text of ASCII digits
StrToInt(s) ==
    IF Len(s) = 0 THEN 0
    ELSE 10 * StrToInt(SubSeq(s, 1, Len(s) - 1)) + DigitVal(s[Len(s)])

RECURSIVE DigitRun(_, _)
\* the length of the longest run of digits of s that starts at position i
DigitRun(s, i) ==
    IF i > Len(s) \/ ~IsDigit(s[i]) THEN 0 ELSE 1 + DigitRun(s, i + 1)

StartsWith(s, p) == Len(s) >= Len(p) /\ SubSeq(s, 1, Len(p)) = p

RECURSIVE Concat(_)
\* "".join(list)
Concat(ss) == IF Len(ss) = 0 THEN <<>> ELSE Head(ss) \o Concat(Tail(ss))

----------------------------------------------------------------------------
(* Packet and ACK *)

NoPacket == [ok |-> FALSE, count |-> 0, total |-> 0, tag |-> 0, data |-> <<>>]

\* Packet.__str__
PacketStr(count, total, tag, data) ==
    IF count = 0
    THEN <<"|">> \o IntToStr(tag) \o <<"|">> \o data
    ELSE IntToStr(count) \o <<"/">> \o IntToStr(total) \o <<"|">>
         \o IntToStr(tag) \o <<"|">> \o data

PacketTail_NoBarInData(s, p, count, total) ==
    LET d == DigitRun(s, p + 1)
        q == p + 1 + d
    IN  IF /\ p <= Len(s) /\ s[p] = "|"
           /\ d > 0
           /\ q < Len(s) /\ s[q] = "|"
           /\ \A i \in (q + 1)..Len(s) : s[i] \notin {"\n", "|"}
        THEN [ok |-> TRUE, count |-> count, total |-> total,
              tag |-> StrToInt(SubSeq(s, p + 1, q - 1)),
              data |-> SubSeq(s, q + 1, Len(s))]
        ELSE [ok |-> FALSE, count |-> 0, total |-> 0, tag |-> 0, data |-> <<>>]

\* the rest of PACKET_REGEX from position p on: \|([0-9]+)\|(.+)$
PacketTail(s, p, count, total) ==
    LET d == DigitRun(s, p + 1)
        q == p + 1 + d           \* position of the second "|"
    IN  IF /\ p <= Len(s) /\ s[p] = "|"
           /\ d > 0
           /\ q < Len(s) /\ s[q] = "|"
           /\ \A i \in (q + 1)..Len(s) : s[i] # "\n"
        THEN [ok |-> TRUE, count |-> count, total |-> total,
              tag |-> StrToInt(SubSeq(s, p + 1, q - 1)),
              data |-> SubSeq(s, q + 1, Len(s))]
        ELSE NoPacket

\* Packet.unpack: PACKET_REGEX.fullmatch, ^(([0-9]+)\/([0-9]+))?\|([0-9]+)\|(.+)$
PacketUnpack(s) ==
    LET d1 == DigitRun(s, 1)
        d2 == DigitRun(s, d1 + 2)
    IN  IF d1 = 0 THEN PacketTail(s, 1, 0, 0)
        ELSE IF d1 + 1 <= Len(s) /\ s[d1 + 1] = "/" /\ d2 > 0
             THEN PacketTail(s, d1 + 2 + d2,
                             StrToInt(SubSeq(s, 1, d1)),
                             StrToInt(SubSeq(s, d1 + 2, d1 + 1 + d2)))
             ELSE NoPacket

\* ACK.__str__
AckStr(tag) == <<"A", "C", "K", ":">> \o IntToStr(tag)

\* ACK.unpack: _, tag = data.split(":"); int(tag).  -1 stands for the ValueError.
AckUnpack(s) ==
    LET colons == {i \in 1..Len(s) : s[i] = ":"}
        c == CHOOSE i \in colons : TRUE
        t == SubSeq(s, c + 1, Len(s))
    IN  IF Cardinality(colons) = 1 /\ Len(t) > 0 /\ DigitRun(t, 1) = Len(t)
        THEN StrToInt(t) ELSE -1

----------------------------------------------------------------------------
(* Tag allocator: MsgPack.__get_tag *)

\* the tag __get_tag(ack) returns
GetTag(ack) == IF ack THEN ack_tag ELSE nack_tag

AckTagAfter_WrapLate(t) == IF t + 1 > max_tag THEN ack_threshold ELSE t + 1

\* self.ack_tag after an allocation from the ack range
AckTagAfter(t) == IF t + 1 >= max_tag THEN ack_threshold ELSE t + 1

\* self.nack_tag after an allocation from the no-ack range
NackTagAfter(t) == IF t + 1 >= ack_threshold THEN 1 ELSE t + 1

\* the effect of __get_tag(ack) on the two counters
AdvanceTag(ack) ==
    /\ ack_tag' = IF ack THEN AckTagAfter(ack_tag) ELSE ack_tag
    /\ nack_tag' = IF ack THEN nack_tag ELSE NackTagAfter(nack_tag)

----------------------------------------------------------------------------
(* Encoder: MsgPack.split_messages_to_queue *)

RECURSIVE Chunks_ShortTail(_)
Chunks_ShortTail(s) ==
    IF Len(s) <= 1 THEN <<>>
    ELSE IF Len(s) <= split_length THEN <<s>>
    ELSE <<SubSeq(s, 1, split_length)>>
         \o Chunks_ShortTail(SubSeq(s, split_length + 1, Len(s)))

RECURSIVE Chunks(_)
\* the slices data[:split_length], data[split_length:2*split_length], ...
Chunks(s) ==
    IF Len(s) = 0 THEN <<>>
    ELSE IF Len(s) <= split_length THEN <<s>>
    ELSE <<SubSeq(s, 1, split_length)>>
         \o Chunks(SubSeq(s, split_length + 1, Len(s)))

\* the frames split_messages_to_queue(data, stream, ack_needed) puts on the
\* stream, in order, once __get_tag has returned tag
SplitFrames(data, tag) ==
    IF Len(data) <= split_length
    THEN <<PacketStr(0, 0, tag, data)>>
    ELSE LET packets == Chunks(data)
             total == Len(packets)
         IN  [i \in 1..total |-> PacketStr(i, total, tag, packets[i])]

\* The parameters split_messages_to_queue declares.  A call that passes
\* another keyword raises TypeError before the body runs.
SplitParams == {"data", "stream", "ack_needed"}

SplitCallRaises(keywords) == ~(keywords \subseteq SplitParams)

----------------------------------------------------------------------------
(* Decoder: MsgPack.__process_packet *)

Remove(f, k) == [x \in DOMAIN f \ {k} |-> f[x]]

Put(f, k, v) == [x \in DOMAIN f \cup {k} |-> IF x = k THEN v ELSE f[x]]

\* [""] * total
EmptySlots(total) == [i \in 1..total |-> <<>>]

\* all([len(packet) for packet in data_buffer])
AllFilled(slots) == \A i \in 1..Len(slots) : Len(slots[i]) > 0

\* the result of one run of __process_packet: the buffer table, the texts put on
\* processed_data, the tags put on ack_stream, the effects in program order
\* and the exception that ended the run ("" when none)
Outcome(b, emit, acks, ops, exc) ==
    [buffers |-> b, emit |-> emit, acks |-> acks, ops |-> ops, exc |-> exc]

\* if data.tag >= self.ack_threshold: await self.ack_stream.put(data.tag)
AckFor(tag) == IF tag >= ack_threshold THEN <<tag>> ELSE <<>>

AckOps(tag) == IF tag >= ack_threshold THEN <<"ack">> ELSE <<>>

ProcessSingle_ClearsAll(b, p) ==
    Outcome(<<>>, <<p.data>>, AckFor(p.tag),
            (IF p.tag \in DOMAIN b THEN <<"pop">> ELSE <<>>) \o <<"emit">>
                \o AckOps(p.tag),
            "")

\* count == 0: the single-packet branch
ProcessSingle(b, p) ==
    LET had == p.tag \in DOMAIN b
    IN  Outcome(IF had THEN Remove(b, p.tag) ELSE b,
                <<p.data>>, AckFor(p.tag),
                (IF had THEN <<"pop">> ELSE <<>>) \o <<"emit">> \o AckOps(p.tag),
                "")

IsComplete_LastCountOnly(p, received, total) == total = p.count

\* the test that decides whether the message is complete
IsComplete(p, received, total) == total = p.count \/ received = total

\* count > 0: the fragment branch
ProcessFragment(b, p) ==
    LET fresh == p.tag \notin DOMAIN b \/ b[p.tag].total # p.total
        bd == IF fresh
              THEN [received |-> 0, total |-> p.total, slots |-> EmptySlots(p.total)]
              ELSE b[p.tag]
        received == bd.received + 1
        total == bd.total
    IN  IF p.count > total
        THEN \* data_buffer[data.count - 1] = ... raises IndexError
             Outcome(b, <<>>, <<>>, <<>>, "IndexError")
        ELSE
        LET slots == [bd.slots EXCEPT ![p.count] = p.data]
            saved == Put(b, p.tag, [received |-> received, total |-> total,
                                    slots |-> slots])
        IN  IF IsComplete(p, received, total) /\ AllFilled(slots)
            THEN IF p.tag \in DOMAIN b
                 THEN Outcome(Remove(b, p.tag), <<Concat(slots)>>, AckFor(p.tag),
                              <<"emit", "pop">> \o AckOps(p.tag), "")
                 ELSE \* self.buffers.pop(data.tag) raises KeyError
                      Outcome(b, <<Concat(slots)>>, <<>>, <<"emit">>, "KeyError")
            ELSE Outcome(saved, <<>>, AckFor(p.tag),
                         <<"store">> \o AckOps(p.tag), "")

ProcessPacket_EmitsUnparsed(b, msg) ==
    LET p == PacketUnpack(msg)
    IN  IF ~p.ok THEN Outcome(b, <<msg>>, <<>>, <<"emit">>, "")
        ELSE IF p.count = 0 THEN ProcessSingle(b, p)
        ELSE ProcessFragment(b, p)

\* __process_packet(msg)
ProcessPacket(b, msg) ==
    LET p == PacketUnpack(msg)
    IN  IF ~p.ok THEN Outcome(b, <<>>, <<>>, <<>>, "ValueError")
        ELSE IF p.count = 0 THEN ProcessSingle(b, p)
        ELSE ProcessFragment(b, p)

----------------------------------------------------------------------------
(* State after construction: MsgPack.__init__ and LoRaService.__init__ *)

NoOp == [op |-> "init"]

\* history kept for the properties: allocations per tag range, the record
\* text last encoded with what the decoder has emitted and acknowledged since,
\* the frames delivered since, the run of HIGH frames sent while LOW waited, and
\* the samples checked for the watched key since it was last clear, as long as
\* they follow the edge scenario, with the condition and the records emitted
\* after each, and the writes, replies and timeouts on the serial port
NoHist == [nacks |-> 0, acks |-> 0,
           text |-> <<>>, tag |-> 0, emitted |-> <<>>, acked |-> <<>>, delivered |-> 0,
           high_run |-> 0,
           samples |-> <<>>, conds |-> <<>>, outs |-> <<>>,
           log |-> <<>>]

InitCodec ==
    /\ nack_tag = 1
    /\ ack_tag = ack_threshold
    /\ buffers = <<>>
    /\ processed_data = <<>>
    /\ ack_stream = <<>>
    /\ stream = <<>>
    /\ record = <<>>

InitService ==
    /\ immediate_queue = <<>>
    /\ high_priority_queue = <<>>
    /\ low_priority_queue = <<>>
    /\ pending_acks = <<>>
    /\ high_priority_count = 0
    /\ monitor_errors = 0
    /\ sends = 0

\* MonitorAlerts.__init__: no rule, no condition, nothing emitted
InitAlerts ==
    /\ rules = <<>>
    /\ alert_conditions = <<>>
    /\ out_stream = <<>>

\* the tasks that call RLYR896.__send next to each other: the transmit loop of
\* the service and a host that reads the radio's settings
Callers == {"transmit_task", "host"}

Idle == [at |-> "idle", command |-> [cmd |-> "", args |-> <<>>]]

\* RLYR896.__init__: self.send_lock = Lock(), nobody has called __send
InitCommands ==
    /\ send_lock = FALSE
    /\ callers = [c \in Callers |-> Idle]
    /\ radio_owed = <<>>

\* RLYR896.__init__ with the defaults of its signature and the parameters
\* LoRaService hands it, followed by connect()
InitRadio ==
    /\ ready = FALSE
    /\ wire = <<>>
    /\ command_response = <<>>
    /\ radio_pc = [at |-> "new", k |-> 0]
    /\ radio_config = [address |-> 10, network_id |-> 3, spreading_factor |-> 10,
                       bandwidth |-> 9, coding_rate |-> 4, preamble |-> 6]
    /\ in_stream = <<>>
    /\ InitCommands

\* LoRaService.__init__ and MsgPack.__init__: nothing runs yet
\* the four tasks run() creates, in the order of self.tasks
TaskNames == {"resend_monitor", "send_ack", "transmit", "receive_handler"}

InitConstructed ==
    /\ running = FALSE
    /\ msgpack_running = FALSE
    /\ tasks = {}
    /\ task_pc = [n \in TaskNames |-> "none"]
    /\ stop_pc = "idle"

\* the loops are started: LoRaService.run() and MsgPack.start() have been
\* called
InitStarted ==
    /\ running = TRUE
    /\ msgpack_running = TRUE
    /\ tasks = TaskNames
    /\ task_pc = [n \in TaskNames |-> "loop"]
    /\ stop_pc = "idle"

\* AlertService.__init__: no sample, no monitor
InitMonitors ==
    /\ sample_stream = <<>>
    /\ alert_monitors = <<>>

InitExt == InitAlerts /\ InitRadio /\ InitStarted /\ InitMonitors

----------------------------------------------------------------------------
(* The tag allocator on its own *)

NackRange == ack_threshold - 1
AckRange == max_tag - ack_threshold

InitTag ==
    /\ InitCodec /\ InitService /\ InitExt
    /\ last = NoOp
    /\ hist = NoHist

\* one call of __get_tag(ack); hist counts the allocations of each range
\* (modulo the size of the range)
Allocate(ack) ==
    /\ AdvanceTag(ack)
    /\ last' = [op |-> "get_tag", ack |-> ack, tag |-> GetTag(ack)]
    /\ hist' = IF ack THEN [hist EXCEPT !.acks = (@ + 1) % AckRange]
                      ELSE [hist EXCEPT !.nacks = (@ + 1) % NackRange]
    /\ UNCHANGED ext_vars
    /\ UNCHANGED <<buffers, processed_data, ack_stream, stream, record>>
    /\ UNCHANGED svc_vars

AllocateAck == Allocate(TRUE)
AllocateNack == Allocate(FALSE)

NextTag == AllocateAck \/ AllocateNack

SpecTag == InitTag /\ [][NextTag]_vars

\* C9: the k-th allocation without ack returns 1 + (k mod (ACK_THRESHOLD-1)), the
\* k-th allocation with ack returns ACK_THRESHOLD + (k mod (MAX_TAG-ACK_THRESHOLD)),
\* k counting the earlier allocations of the same range only: each range cycles
\* on its own, never leaves its bounds, and an allocation in one range leaves
\* the next tag of the other range alone.
C9_TagCycles ==
    /\ nack_tag = 1 + hist.nacks
    /\ ack_tag = ack_threshold + hist.acks
    /\ last.op = "get_tag" =>
         IF last.ack
         THEN /\ last.tag \in ack_threshold..(max_tag - 1)
              /\ last.tag = ack_threshold + ((hist.acks + AckRange - 1) % AckRange)
         ELSE /\ last.tag \in 1..(ack_threshold - 1)
              /\ last.tag = 1 + ((hist.nacks + NackRange - 1) % NackRange)

\* both ranges have wrapped: the last tag of the no-ack range was just handed
\* out, after the ack range had gone round
C9_Witness ==
    /\ last.op = "get_tag" /\ ~last.ack /\ last.tag = ack_threshold - 1
    /\ nack_tag = 1
    /\ ack_tag = ack_threshold + 1

----------------------------------------------------------------------------
(* The codec's process loop: MsgPack.__loop, __process_inbound_packet *)

AckReceived_ClearsTable(table, tag) == <<>>

\* self.ack_callback(tag) = LoRaService.__ack_received: del pending_acks[tag]
AckReceived(table, tag) == SelectSeq(table, LAMBDA e : e.tag # tag)

\* __process_ack(msg) applied to the pending-ack table
ProcessAck(table, msg) ==
    LET tag == AckUnpack(msg)
    IN  IF tag < 0 THEN table ELSE AckReceived(table, tag)

IsAckLine(msg) == StartsWith(msg, <<"A", "C", "K", ":">>)

HasTags(table) == {table[i].tag : i \in 1..Len(table)}

\* one packet taken from in_stream and handled; last records the buffer table
\* the packet met and what the run did
ProcessInbound(msg) ==
    IF IsAckLine(msg)
    THEN /\ pending_acks' = ProcessAck(pending_acks, msg)
         /\ last' = [op |-> "ack_in", msg |-> msg, tag |-> AckUnpack(msg),
                     had |-> AckUnpack(msg) \in HasTags(pending_acks)]
         /\ UNCHANGED <<buffers, processed_data, ack_stream>>
    ELSE LET o == ProcessPacket(buffers, msg)
             p == PacketUnpack(msg)
         IN  /\ \A t \in DOMAIN o.buffers : o.buffers[t].received <= MaxReceived
             /\ Len(processed_data) + Len(o.emit) <= MaxQueue
             /\ Len(ack_stream) + Len(o.acks) <= MaxQueue
             /\ buffers' = o.buffers
             /\ processed_data' = processed_data \o o.emit
             /\ ack_stream' = ack_stream \o o.acks
             /\ last' = [op |-> "packet_in", msg |-> msg, packet |-> p,
                         before |-> buffers,
                         emit |-> o.emit, acks |-> o.acks, ops |-> o.ops,
                         exc |-> o.exc]
             /\ UNCHANGED pending_acks

----------------------------------------------------------------------------
(* The transmit loop: LoRaService.__transmit_task *)

TakeHigh_NoStreakLimit(packet, count, high) ==
    packet = <<>> /\ count <= high_priority_send_limit /\ Len(high) > 0

TakeHigh_OverImmediate(packet, count, high) ==
    count < high_priority_send_limit /\ Len(high) > 0

\* the condition of the second if of the loop body
TakeHigh(packet, count, high) ==
    packet = <<>> /\ count < high_priority_send_limit /\ Len(high) > 0

TakeLow_AfterAnyPacket(packet, low) == Len(low) > 0

\* the condition of the third if
TakeLow(packet, low) == packet = <<>> /\ Len(low) > 0

\* the frame one iteration picks, where it came from, and the queues and the
\* streak counter after the iteration
SelectPacket(imm, high, low, count) ==
    LET fromImm == Len(imm) > 0
        p1 == IF fromImm THEN Head(imm) ELSE <<>>
        fromHigh == TakeHigh(p1, count, high)
        p2 == IF fromHigh THEN Head(high) ELSE p1
        c2 == IF fromHigh THEN count + 1 ELSE 0
        fromLow == TakeLow(p2, low)
        p3 == IF fromLow THEN Head(low) ELSE p2
        c3 == IF fromLow THEN 0 ELSE c2
    IN  [packet |-> p3,
         from |-> IF fromLow THEN "LOW" ELSE IF fromHigh THEN "HIGH"
                  ELSE IF fromImm THEN "IMMEDIATE" ELSE "NONE",
         taken |-> {x \in {"IMMEDIATE", "HIGH", "LOW"} :
                       \/ x = "IMMEDIATE" /\ fromImm
                       \/ x = "HIGH" /\ fromHigh
                       \/ x = "LOW" /\ fromLow},
         imm |-> IF fromImm THEN Tail(imm) ELSE imm,
         high |-> IF fromHigh THEN Tail(high) ELSE high,
         low |-> IF fromLow THEN Tail(low) ELSE low,
         count |-> c3]

\* one iteration of the loop: select, then lora_con.send(packet) and the pacing
\* sleep, or the idle sleep when nothing was selected
TransmitRound ==
    LET sel == SelectPacket(immediate_queue, high_priority_queue,
                            low_priority_queue, high_priority_count)
        waiting == Len(immediate_queue) = 0 /\ Len(low_priority_queue) > 0
    IN  /\ immediate_queue' = sel.imm
        /\ high_priority_queue' = sel.high
        /\ low_priority_queue' = sel.low
        /\ high_priority_count' = sel.count
        /\ last' = [op |-> IF sel.packet = <<>> THEN "idle" ELSE "send",
                    frame |-> sel.packet, from |-> sel.from, taken |-> sel.taken,
                    imm_nonempty |-> Len(immediate_queue) > 0,
                    imm_head |-> IF Len(immediate_queue) > 0
                                 THEN Head(immediate_queue) ELSE <<>>,
                    count_before |-> high_priority_count,
                    high_nonempty |-> Len(high_priority_queue) > 0,
                    low_nonempty |-> Len(low_priority_queue) > 0]
        /\ hist' = [hist EXCEPT !.high_run =
                       IF sel.packet # <<>> /\ sel.from = "HIGH" /\ waiting
                       THEN @ + 1 ELSE 0]
        /\ UNCHANGED <<pending_acks, monitor_errors, sends>>
        /\ UNCHANGED codec_vars

TransmitTask == TransmitRound /\ UNCHANGED ext_vars

----------------------------------------------------------------------------
(* LoRaService.transmit and the pending-ack table *)

Priorities == {"IMMEDIATE", "HIGH", "LOW"}

\* A pending-ack entry.  The code stores the deadline expiry = now +
\* resend_interval and compares it with time.monotonic(); the model stores
\* ttl = expiry - now, so that "now < expiry" reads ttl > 0.
Entry(tag, ttl, attempt, queue, data) ==
    [tag |-> tag, ttl |-> ttl, attempt |-> attempt, queue |-> queue, data |-> data]

\* self.pending_acks[tag] = entry (a dict keeps the position of a key it has)
SetEntry(table, e) ==
    IF e.tag \in HasTags(table)
    THEN [i \in 1..Len(table) |-> IF table[i].tag = e.tag THEN e ELSE table[i]]
    ELSE Append(table, e)

EntryOf(table, tag) == table[CHOOSE i \in 1..Len(table) : table[i].tag = tag]

\* the test that decides whether transmit() tracks the tag for an ack
TracksAck(tag) == tag > ack_threshold

\* transmit(data, ack, priority)
Transmit(data, ack, priority) ==
    LET tag == GetTag(ack)
        frames == SplitFrames(data, tag)
    IN  /\ AdvanceTag(ack)
        /\ immediate_queue' = IF priority = "IMMEDIATE"
                              THEN immediate_queue \o frames ELSE immediate_queue
        /\ high_priority_queue' = IF priority = "HIGH"
                                  THEN high_priority_queue \o frames
                                  ELSE high_priority_queue
        /\ low_priority_queue' = IF priority = "LOW"
                                 THEN low_priority_queue \o frames
                                 ELSE low_priority_queue
        /\ pending_acks' = IF TracksAck(tag)
                           THEN SetEntry(pending_acks,
                                         Entry(tag, resend_interval, 0, priority, data))
                           ELSE pending_acks
        /\ sends' = sends + 1
        /\ last' = [op |-> "transmit", data |-> data, ack |-> ack,
                    priority |-> priority, tag |-> tag, frames |-> frames,
                    table_before |-> pending_acks]
        /\ UNCHANGED ext_vars
        /\ UNCHANGED <<high_priority_count, monitor_errors, hist>>
        /\ UNCHANGED <<buffers, processed_data, ack_stream, stream, record>>

----------------------------------------------------------------------------
(* The retransmit monitor: LoRaService.__resend_monitor_task *)

RECURSIVE MonitorWalk(_, _, _, _)
\* the for loop over list(self.pending_acks.keys()): the table and the two
\* queues after it, and whether it was left by an exception
MonitorWalk(keys, table, imm, high) ==
    IF Len(keys) = 0
    THEN [table |-> table, imm |-> imm, high |-> high, raised |-> FALSE]
    ELSE LET e == EntryOf(table, Head(keys))
         IN  IF e.ttl > 0
             THEN MonitorWalk(Tail(keys), table, imm, high)
             ELSE IF e.attempt >= max_retries
             THEN MonitorWalk(Tail(keys), AckReceived(table, e.tag), imm, high)
             ELSE IF SplitCallRaises({"tag"})
             THEN \* split_messages_to_queue(data, queue, True, tag=tag): TypeError
                  [table |-> table, imm |-> imm, high |-> high, raised |-> TRUE]
             ELSE \* only with a split_messages_to_queue that takes the tag
                  LET frames == SplitFrames(e.data, e.tag)
                      again == Entry(e.tag, resend_interval, e.attempt + 1,
                                     e.queue, e.data)
                  IN  IF e.queue = "IMMEDIATE"
                      THEN MonitorWalk(Tail(keys), SetEntry(table, again),
                                       imm \o frames, high)
                      ELSE MonitorWalk(Tail(keys), SetEntry(table, again),
                                       imm, high \o frames)

\* one iteration of the monitor loop.  An exception is logged and the loop
\* goes round again; monitor_errors is the parity of those log lines.  The
\* await sleep(0.5) is the last statement of the try block: the iteration
\* reaches it when the for loop ends without an exception.  The tag keyword
\* is rejected when the coroutine is called, before anything is awaited.
ResendMonitor ==
    LET keys == [i \in 1..Len(pending_acks) |-> pending_acks[i].tag]
        w == MonitorWalk(keys, pending_acks, immediate_queue, high_priority_queue)
    IN  /\ pending_acks' = w.table
        /\ immediate_queue' = w.imm
        /\ high_priority_queue' = w.high
        /\ monitor_errors' = IF w.raised THEN 1 - monitor_errors ELSE monitor_errors
        /\ last' = [op |-> "monitor", raised |-> w.raised,
                    slept |-> ~w.raised,
                    table_before |-> pending_acks]
        /\ UNCHANGED ext_vars
        /\ UNCHANGED <<low_priority_queue, high_priority_count, sends, hist>>
        /\ UNCHANGED codec_vars

\* one second passes on the monotonic clock
Tick ==
    /\ \E i \in 1..Len(pending_acks) : pending_acks[i].ttl > 0
    /\ pending_acks' = [i \in 1..Len(pending_acks) |->
                          [pending_acks[i] EXCEPT !.ttl = IF @ > 0 THEN @ - 1 ELSE 0]]
    /\ last' = [op |-> "tick"]
    /\ UNCHANGED ext_vars
    /\ UNCHANGED <<immediate_queue, high_priority_queue, low_priority_queue,
                   high_priority_count, monitor_errors, sends, hist>>
    /\ UNCHANGED codec_vars

----------------------------------------------------------------------------
(* The transmit loop with producers on the three queues *)

\* the record text the producers hand to transmit()
TxTexts == {<<"a">>}

QueueOf(priority) ==
    IF priority = "IMMEDIATE" THEN immediate_queue
    ELSE IF priority = "HIGH" THEN high_priority_queue
    ELSE low_priority_queue

InitTx ==
    /\ InitCodec /\ InitService /\ InitExt
    /\ last = NoOp
    /\ hist = NoHist

\* a producer calls transmit(data, ack=False, priority)
TxSend ==
    \E d \in TxTexts, pr \in Priorities :
        /\ sends < MaxTxSends
        /\ Len(QueueOf(pr)) < MaxQueue
        /\ Transmit(d, FALSE, pr)

NextTx == TxSend \/ TransmitTask

SpecTx == InitTx /\ [][NextTx]_vars

\* C3: while IMMEDIATE is empty and LOW is not, the transmit loop sends at most
\* high_priority_send_limit HIGH frames in a row before it sends a LOW frame
\* (hist.high_run counts the HIGH frames sent in a row in iterations that found
\* IMMEDIATE empty and LOW non-empty).
C3_LowNotStarved == hist.high_run <= high_priority_send_limit

\* the streak has reached the limit with LOW still waiting, and the next
\* iteration has then served LOW
C3_Witness ==
    /\ last.op = "send" /\ last.from = "LOW"
    /\ last.count_before = high_priority_send_limit
    /\ last.high_nonempty

\* C4: an iteration that finds IMMEDIATE non-empty hands the head of IMMEDIATE
\* to the radio and takes nothing from HIGH or LOW.
C4_ImmediateFirst ==
    (last.op \in {"send", "idle"} /\ last.imm_nonempty) =>
        /\ last.op = "send"
        /\ last.frame = last.imm_head
        /\ last.taken = {"IMMEDIATE"}

\* IMMEDIATE was served while HIGH and LOW both had frames waiting
C4_Witness ==
    /\ last.op = "send" /\ last.imm_nonempty
    /\ last.high_nonempty /\ last.low_nonempty
    /\ last.count_before > 0

\* C23: a LOW frame is handed to the radio only in an iteration in which
\* IMMEDIATE is empty and either HIGH is empty or the HIGH-streak counter has
\* reached high_priority_send_limit; and serving an IMMEDIATE or a LOW frame
\* resets the HIGH-streak counter to 0.
C23_LowAfterHighAndReset ==
    last.op = "send" =>
        /\ "LOW" \in last.taken =>
              /\ ~last.imm_nonempty
              /\ ~last.high_nonempty
                    \/ last.count_before = high_priority_send_limit
        /\ last.taken \cap {"IMMEDIATE", "LOW"} # {} => high_priority_count = 0

\* a LOW frame has gone out past a waiting HIGH frame once the streak was full,
\* and the streak counter is back at 0
C23_Witness ==
    /\ last.op = "send" /\ last.taken = {"LOW"}
    /\ last.high_nonempty /\ ~last.imm_nonempty
    /\ last.count_before = high_priority_send_limit
    /\ high_priority_count = 0

\* C24: whenever the transmit loop begins an iteration with at least one of the
\* three queues non-empty, it dequeues and sends one frame in that iteration; it
\* takes the idle tick only when IMMEDIATE, HIGH and LOW are all empty.
C24_IdleOnlyWhenEmpty ==
    last.op \in {"send", "idle"} =>
        (last.op = "idle" <=>
            ~(last.imm_nonempty \/ last.high_nonempty \/ last.low_nonempty))

----------------------------------------------------------------------------
(* The service: transmit(), the retransmit monitor, the clock, incoming acks *)

\* record texts handed to transmit(): one that fits a frame, one that is split
SvcTexts == {<<"a">>, <<"a", "b", "c">>}

InitSvc ==
    /\ InitCodec /\ InitService /\ InitExt
    /\ last = NoOp
    /\ hist = NoHist

\* a caller of transmit(data, ack, priority)
SvcSend ==
    \E d \in SvcTexts, ack \in BOOLEAN, pr \in Priorities :
        /\ sends < MaxSends
        /\ Transmit(d, ack, pr)

\* the peer's ACK:<tag> line reaches the codec's process loop
SvcAck ==
    \E t \in ack_threshold..(ack_threshold + MaxSends) :
        /\ ProcessInbound(AckStr(t))
        /\ UNCHANGED ext_vars
        /\ UNCHANGED <<nack_tag, ack_tag, stream, record, hist>>
        /\ UNCHANGED <<immediate_queue, high_priority_queue, low_priority_queue,
                       high_priority_count, monitor_errors, sends>>

NextSvc == SvcSend \/ ResendMonitor \/ Tick \/ SvcAck

SpecSvc == InitSvc /\ [][NextSvc]_vars

\* the monitor loop keeps running and time keeps passing
FairSvc == SpecSvc /\ WF_vars(ResendMonitor) /\ WF_vars(Tick)

\* C1: a pending-ack entry does not stay for ever: without an ack it is
\* retransmitted at most max_retries times and then dropped, so every tag that is
\* in the pending-ack table is eventually out of it again.
C1_EntryEventuallyDropped ==
    \A t \in ack_threshold..(ack_threshold + MaxSends) :
        (t \in HasTags(pending_acks)) ~> (t \notin HasTags(pending_acks))

\* C2: right after transmit(record, ack, priority) the pending-ack table holds,
\* for ack=true, an entry for the allocated tag with attempt count 0, the origin
\* priority and the record text; for ack=false it is as it was before the call.
C2_AckRecordTracked ==
    last.op = "transmit" =>
        IF last.ack
        THEN /\ last.tag \in ack_threshold..(max_tag - 1)
             /\ last.tag \in HasTags(pending_acks)
             /\ EntryOf(pending_acks, last.tag).attempt = 0
             /\ EntryOf(pending_acks, last.tag).queue = last.priority
             /\ EntryOf(pending_acks, last.tag).data = last.data
        ELSE pending_acks = last.table_before

\* the frames fs are in the queue q, in their order and next to each other
FramesQueued(fs, q) ==
    \E i \in 0..(Len(q) - Len(fs)) : SubSeq(q, i + 1, i + Len(fs)) = fs

\* C18: an iteration of the monitor that finds an expired entry with fewer than
\* max_retries attempts re-enqueues the record's frames under the same tag, on
\* IMMEDIATE if the origin was IMMEDIATE and on HIGH otherwise, and leaves the
\* entry with one attempt more and its deadline resend_interval ahead.
C18_ExpiredEntryResent ==
    last.op = "monitor" =>
        \A i \in 1..Len(last.table_before) :
            LET e == last.table_before[i]
            IN  (e.ttl = 0 /\ e.attempt < max_retries) =>
                    /\ e.tag \in HasTags(pending_acks)
                    /\ EntryOf(pending_acks, e.tag).attempt = e.attempt + 1
                    /\ EntryOf(pending_acks, e.tag).ttl = resend_interval
                    /\ FramesQueued(SplitFrames(e.data, e.tag),
                                    IF e.queue = "IMMEDIATE" THEN immediate_queue
                                    ELSE high_priority_queue)

\* C19: every iteration of the monitor loop reaches its poll sleep, the
\* iterations in which handling an expired entry raises included, so that the
\* monitor yields to the other tasks of the event loop between two iterations.
C19_MonitorReachesSleep ==
    last.op = "monitor" => last.slept

----------------------------------------------------------------------------
(* Acknowledged records: every record is sent with ack=True, the peer's acks  *)
(* come back in any order and more than once, the monitor and the clock run   *)

\* a caller of transmit(data, True, priority)
AckSend ==
    \E d \in TxTexts, pr \in Priorities :
        /\ sends < MaxSends
        /\ Transmit(d, TRUE, pr)

NextAck == AckSend \/ ResendMonitor \/ Tick \/ SvcAck

SpecAck == InitSvc /\ [][NextAck]_vars

\* C25: the ack callback for tag t removes t's pending-ack entry if one exists
\* and changes no other entry; a duplicate ack for t, or an ack for a tag that
\* has no entry, leaves the pending-ack table unchanged; and the monitor
\* re-enqueues frames only under tags that have an entry, so a record whose
\* entry is removed is not retransmitted again.
C25_AckRemovesOnlyItsEntry ==
    [][/\ last'.op = "ack_in" =>
            LET t == last'.tag
                kept == {i \in 1..Len(pending_acks) : pending_acks[i].tag # t}
            IN  /\ HasTags(pending_acks') = HasTags(pending_acks) \ {t}
                /\ Len(pending_acks') = Cardinality(kept)
                /\ \A i \in kept :
                        EntryOf(pending_acks', pending_acks[i].tag) = pending_acks[i]
                /\ t \notin HasTags(pending_acks) => pending_acks' = pending_acks
       /\ last'.op = "monitor" =>
            LET added == SubSeq(immediate_queue', Len(immediate_queue) + 1,
                                Len(immediate_queue'))
                         \o SubSeq(high_priority_queue', Len(high_priority_queue) + 1,
                                   Len(high_priority_queue'))
            IN  \A i \in 1..Len(added) :
                    PacketUnpack(added[i]).tag \in HasTags(pending_acks)
      ]_vars

\* an ack has removed the entry of its tag and the entry of another record is
\* still in the table
C25_Witness ==
    /\ last.op = "ack_in" /\ last.had
    /\ last.tag \notin HasTags(pending_acks)
    /\ Len(pending_acks) > 0

----------------------------------------------------------------------------
(* The ack tags go round: records are sent with ack=True one after the other, *)
(* at most MaxPending + 1 of them unacknowledged at a time, until the tag     *)
(* counter has wrapped                                                        *)

\* entries the table may hold when a further record is sent
MaxPending == 1

\* a caller of transmit(data, True, LOW), until the first two tags of the
\* cycle have been handed out a second time
WrapSend ==
    \E d \in TxTexts :
        /\ sends < AckRange + 2
        /\ Len(pending_acks) <= MaxPending
        /\ Transmit(d, TRUE, "LOW")

\* the peer's ACK line for a record that awaits it
WrapAck ==
    \E t \in HasTags(pending_acks) :
        /\ ProcessInbound(AckStr(t))
        /\ UNCHANGED ext_vars
        /\ UNCHANGED <<nack_tag, ack_tag, stream, record, hist>>
        /\ UNCHANGED <<immediate_queue, high_priority_queue, low_priority_queue,
                       high_priority_count, monitor_errors, sends>>

NextWrap == WrapSend \/ WrapAck

SpecWrap == InitSvc /\ [][NextWrap]_vars

\* C26: as long as no more than MAX_TAG - ACK_THRESHOLD ack-bearing records are
\* awaiting acknowledgement, enqueuing a new ack-bearing record never
\* overwrites the pending-ack entry of a different record that is still
\* awaiting its ack.
C26_NoPendingEntryOverwritten ==
    (/\ last.op = "transmit" /\ last.ack
     /\ Len(last.table_before) + 1 <= max_tag - ack_threshold) =>
        last.tag \notin HasTags(last.table_before)

----------------------------------------------------------------------------
(* The codec end to end: a record text is encoded onto a stream, the frames   *)
(* reach the decoder in any order, the service tasks drain what it emits      *)

\* characters of record texts: a letter, the frame separator and a digit
Alphabet == {"a", "|", "7"}

\* the non-empty texts of at most n characters
TextsUpTo(n) == UNION {[1..k -> Alphabet] : k \in 1..n}

\* The producer holds any non-empty text of at most MaxLen characters.  The
\* counters start where __init__ puts them or at the last tag of their range
\* (where they stand after 48 and 49 allocations).
InitCodecAt ==
    /\ record \in TextsUpTo(MaxLen)
    /\ \/ nack_tag = 1 /\ ack_tag = ack_threshold
       \/ nack_tag = ack_threshold - 1 /\ ack_tag = max_tag - 1
    /\ buffers = <<>>
    /\ processed_data = <<>>
    /\ ack_stream = <<>>
    /\ stream = <<>>

InitEnc ==
    /\ InitCodecAt /\ InitService /\ InitExt
    /\ last = NoOp
    /\ hist = NoHist

\* split_messages_to_queue(record, stream, ack_needed), called once the frames
\* of the call before have left the stream and the queues
Encode ==
    \E ack \in BOOLEAN :
        LET tag == GetTag(ack)
            data == record
        IN  /\ sends < MaxEncodes
            /\ stream = <<>> /\ processed_data = <<>> /\ ack_stream = <<>>
            /\ sends' = sends + 1
            /\ AdvanceTag(ack)
            /\ stream' = stream \o SplitFrames(data, tag)
            /\ last' = [op |-> "split", data |-> data, ack |-> ack, tag |-> tag,
                        before |-> stream]
            /\ hist' = [hist EXCEPT !.text = data, !.tag = tag, !.emitted = <<>>,
                                    !.acked = <<>>, !.delivered = 0]
            /\ UNCHANGED ext_vars
            /\ UNCHANGED <<buffers, processed_data, ack_stream, record>>
            /\ UNCHANGED <<immediate_queue, high_priority_queue, low_priority_queue,
                           pending_acks, high_priority_count, monitor_errors>>

\* any one of the frames on the stream reaches the codec's process loop
Deliver ==
    \E i \in 1..Len(stream) :
        /\ ProcessInbound(stream[i])
        /\ stream' = SubSeq(stream, 1, i - 1) \o SubSeq(stream, i + 1, Len(stream))
        /\ hist' = LET o == ProcessPacket(buffers, stream[i])
                   IN  [hist EXCEPT !.emitted = @ \o o.emit,
                                    !.acked = @ \o o.acks,
                                    !.delivered = @ + 1]
        /\ UNCHANGED ext_vars
        /\ UNCHANGED <<nack_tag, ack_tag, record>>
        /\ UNCHANGED <<immediate_queue, high_priority_queue, low_priority_queue,
                       high_priority_count, monitor_errors, sends>>

\* LoRaService.__receive_handler_task takes a record text off processed_data
ReceiveHandler ==
    /\ Len(processed_data) > 0
    /\ processed_data' = Tail(processed_data)
    /\ last' = [op |-> "handler", data |-> Head(processed_data)]
    /\ UNCHANGED ext_vars
    /\ UNCHANGED <<nack_tag, ack_tag, buffers, ack_stream, stream, record, hist>>
    /\ UNCHANGED svc_vars

\* LoRaService.__send_ack_task turns a tag of ack_stream into an ACK line on
\* the IMMEDIATE queue
SendAckTask ==
    /\ Len(ack_stream) > 0
    /\ ack_stream' = Tail(ack_stream)
    /\ immediate_queue' = Append(immediate_queue, AckStr(Head(ack_stream)))
    /\ last' = [op |-> "send_ack", tag |-> Head(ack_stream)]
    /\ UNCHANGED ext_vars
    /\ UNCHANGED <<nack_tag, ack_tag, buffers, processed_data, stream, record, hist>>
    /\ UNCHANGED <<high_priority_queue, low_priority_queue, pending_acks,
                   high_priority_count, monitor_errors, sends>>

NextEnc == Encode \/ Deliver \/ ReceiveHandler \/ SendAckTask

SpecEnc == InitEnc /\ [][NextEnc]_vars

CeilDiv(n, d) == (n + d - 1) \div d

\* C7: a record text longer than SPLIT_LENGTH is enqueued as exactly
\* ceil(len/SPLIT_LENGTH) frames appended to the destination queue; the i-th of
\* them parses as count i, total N and the allocated tag, and the data parts
\* joined in order are the text.
C7_SplitRoundTrip ==
    (last.op = "split" /\ Len(last.data) > split_length) =>
        LET n == CeilDiv(Len(last.data), split_length)
            added == SubSeq(stream, Len(last.before) + 1, Len(stream))
            pk == [i \in 1..Len(added) |-> PacketUnpack(added[i])]
        IN  /\ SubSeq(stream, 1, Len(last.before)) = last.before
            /\ Len(added) = n
            /\ \A i \in 1..n : /\ pk[i].ok
                               /\ pk[i].count = i
                               /\ pk[i].total = n
                               /\ pk[i].tag = last.tag
            /\ Concat([i \in 1..Len(added) |-> pk[i].data]) = last.data

\* a text of three fragments, the last one shorter than SPLIT_LENGTH, has just
\* been split under a two-digit tag
C7_Witness ==
    /\ last.op = "split"
    /\ Len(last.data) = 2 * split_length + 1
    /\ last.tag = max_tag - 1
    /\ Len(stream) = 3

\* C8: a non-empty record text of at most SPLIT_LENGTH characters is enqueued
\* as the one frame |tag|T, and the decoder, given that frame, emits exactly T
\* and keeps no reassembly buffer for the tag.
C8_SingleRoundTrip ==
    /\ (last.op = "split" /\ Len(last.data) <= split_length) =>
          stream = last.before
                   \o << <<"|">> \o IntToStr(last.tag) \o <<"|">> \o last.data >>
    /\ (Len(hist.text) \in 1..split_length /\ hist.delivered = 1) =>
          /\ hist.emitted = <<hist.text>>
          /\ hist.tag \notin DOMAIN buffers
    /\ (last.op = "packet_in" /\ Len(hist.text) \in 1..split_length) =>
          /\ last.emit = <<hist.text>>
          /\ last.packet.count = 0
          /\ last.packet.tag = hist.tag

\* a text of exactly SPLIT_LENGTH characters that contains the separator has
\* gone through the decoder
C8_Witness ==
    /\ last.op = "packet_in"
    /\ Len(hist.text) = split_length
    /\ \E i \in 1..Len(hist.text) : hist.text[i] = "|"
    /\ hist.emitted = <<hist.text>>

\* C5: the fragments of a message of N >= 2 fragments, delivered once each in
\* any order to a decoder that had no buffer for the tag, make the decoder emit
\* the record text exactly once, on the last fragment and not before, and no
\* buffer is left.
C5_AnyOrderReassembly ==
    Len(hist.text) > split_length =>
        IF Len(stream) = 0
        THEN /\ hist.emitted = <<hist.text>>
             /\ hist.tag \notin DOMAIN buffers
             /\ buffers = <<>>
        ELSE hist.emitted = <<>>

\* three fragments of which the first arrived last, so that the last fragment
\* (count = total) met a buffer that was not yet full; the text has been emitted
C5_Witness ==
    /\ Len(hist.text) = 2 * split_length + 1
    /\ Len(stream) = 0
    /\ hist.delivered = 3
    /\ last.op = "packet_in" /\ last.packet.count = 1
    /\ hist.emitted = <<hist.text>>

----------------------------------------------------------------------------
(* The decoder on its own: any frame may come off the radio, in any order and *)
(* any number of times, while the service tasks drain what the decoder emits  *)

\* largest count and total written on a frame
MaxTotal == 2

\* one tag on each side of ack_threshold
DecTags == {ack_threshold - 1, ack_threshold}

FragData == {<<"a">>}
SingleData == {<<"a">>, <<"b">>}

\* the line count/total|tag|data
FrameText(count, total, tag, data) ==
    IntToStr(count) \o <<"/">> \o IntToStr(total) \o <<"|">> \o IntToStr(tag)
        \o <<"|">> \o data

\* lines the radio may hand to the codec: fragments with every count and total
\* up to MaxTotal (count 0, count > total and total 0 included), single frames,
\* an ACK line, an ACK line without a tag, a line without data and a line that
\* is no frame at all
DecFrames ==
    {FrameText(c, t, tag, d) :
        c \in 0..MaxTotal, t \in 0..MaxTotal, tag \in DecTags, d \in FragData}
    \cup {PacketStr(0, 0, tag, d) : tag \in DecTags, d \in SingleData}
    \cup {AckStr(ack_threshold), <<"A", "C", "K", ":">>,
          <<"|", "5", "0", "|">>, <<"a">>}

InitDec ==
    /\ InitCodec /\ InitService /\ InitExt
    /\ last = NoOp
    /\ hist = NoHist

\* the process loop takes the next line from in_stream, once the service tasks
\* have drained what the line before produced; the transmit loop, which polls
\* every 0.1 s, runs at least once between two lines off the radio
ReceiveOf(frames) ==
    \E msg \in frames :
        /\ processed_data = <<>> /\ ack_stream = <<>> /\ immediate_queue = <<>>
        /\ last.op # "packet_in"
        /\ ProcessInbound(msg)
        /\ UNCHANGED ext_vars
        /\ UNCHANGED <<nack_tag, ack_tag, stream, record, hist>>
        /\ UNCHANGED <<immediate_queue, high_priority_queue, low_priority_queue,
                       high_priority_count, monitor_errors, sends>>

Receive == ReceiveOf(DecFrames)

NextDec == Receive \/ ReceiveHandler \/ SendAckTask \/ TransmitTask

SpecDec == InitDec /\ [][NextDec]_vars

\* the frame just handled is a data frame the decoder parsed, with a count that
\* fits its total (a single frame, or fragment count of total with count <= total)
ParsedFrame ==
    /\ last.op = "packet_in"
    /\ last.packet.ok
    /\ last.packet.count <= last.packet.total \/ last.packet.count = 0

\* C6: for every data frame the decoder parses with tag >= ACK_THRESHOLD, single
\* or fragment, duplicate or not, exactly one copy of the tag is pushed to the
\* ack channel, after the frame's data has been emitted or stored; for a frame
\* with tag < ACK_THRESHOLD nothing is pushed.
C6_OneAckPerFrame ==
    ParsedFrame =>
        IF last.packet.tag >= ack_threshold
        THEN /\ last.acks = <<last.packet.tag>>
             /\ ack_stream = <<last.packet.tag>>
             /\ last.ops[Len(last.ops)] = "ack"
             /\ \E i \in 1..(Len(last.ops) - 1) : last.ops[i] \in {"emit", "store"}
        ELSE /\ last.acks = <<>>
             /\ ack_stream = <<>>

\* C10: a single (count = 0) frame that arrives for a tag with a reassembly
\* buffer in progress deletes that tag's buffer and is emitted as a completed
\* record text; the buffers of every other tag stay as they were.
C10_SingleDropsStaleBuffer ==
    (/\ last.op = "packet_in" /\ last.packet.ok /\ last.packet.count = 0
     /\ last.packet.tag \in DOMAIN last.before) =>
        /\ last.packet.tag \notin DOMAIN buffers
        /\ processed_data = <<last.packet.data>>
        /\ DOMAIN buffers = DOMAIN last.before \ {last.packet.tag}
        /\ \A t \in DOMAIN buffers : buffers[t] = last.before[t]

\* a single frame has just replaced the half-filled buffer of its tag while the
\* other tag has a buffer in progress too
C10_Witness ==
    /\ last.op = "packet_in" /\ last.packet.ok /\ last.packet.count = 0
    /\ DOMAIN last.before = DecTags
    /\ last.before[last.packet.tag].received = 1
    /\ DOMAIN buffers = DecTags \ {last.packet.tag}
    /\ processed_data = <<last.packet.data>>

\* C21: whenever the decoder has finished processing a fragment, no reassembly
\* buffer left in the table has all of its slots populated: a tag whose every
\* slot is filled has had its text emitted and its buffer deleted, for any
\* arrival sequence of the tag's fragments, duplicated fragments included.
C21_NoFullBufferLeft ==
    (last.op = "packet_in" /\ last.packet.ok /\ last.packet.count > 0) =>
        \A t \in DOMAIN buffers : ~AllFilled(buffers[t].slots)

----------------------------------------------------------------------------
(* The transmit loop next to the receive path: callers of transmit() fill the *)
(* three queues while frames of the peer come in and their acks are put on    *)
(* IMMEDIATE by the ack task                                                  *)

\* the peer's frames: single frames that ask for an ack
PrioFrames == {PacketStr(0, 0, ack_threshold, <<"a">>)}

PeerFrame == ReceiveOf(PrioFrames)

NextPrio == TxSend \/ PeerFrame \/ ReceiveHandler \/ SendAckTask \/ TransmitTask

SpecPrio == InitTx /\ [][NextPrio]_vars

\* every task of the event loop gets its turn; lora_con.send always returns
FairPrio ==
    /\ SpecPrio
    /\ WF_vars(TransmitTask) /\ WF_vars(SendAckTask) /\ WF_vars(ReceiveHandler)

\* C22: under a fair scheduler and a radio whose send always completes, every
\* frame enqueued on HIGH or LOW is eventually transmitted, even while
\* producers (the ack task included) keep enqueuing frames on the
\* higher-priority queues.  The queues are first-in first-out, so the frames of
\* a queue are all sent in the end if and only if its head is, whenever it has one.
C22_QueuedEventuallySent ==
    /\ (Len(high_priority_queue) > 0) ~> (last.op = "send" /\ last.from = "HIGH")
    /\ (Len(low_priority_queue) > 0) ~> (last.op = "send" /\ last.from = "LOW")

----------------------------------------------------------------------------
(* Tag reuse: the peer sends one fragmented message after the other under     *)
(* tags it has used before; the radio keeps the order of the frames and may   *)
(* lose any of them                                                           *)

MaxMessages == 2     \* messages the peer sends

\* the data of fragment i of the peer's k-th message
FragmentData(k, i) == IntToStr(10 * k + i)

\* the frames of the peer's k-th message, split into total fragments
MessageFrames(k, total, tag) ==
    [i \in 1..total |-> FrameText(i, total, tag, FragmentData(k, i))]

\* the text of the peer's k-th message
MessageText(k, total) == Concat([i \in 1..total |-> FragmentData(k, i)])

InitReuse ==
    /\ InitCodec /\ InitService /\ InitExt
    /\ last = NoOp
    /\ hist = NoHist

\* the peer's split_messages_to_queue and transmit loop put the frames of its
\* next message on the air, once those of the message before are off it
PeerSend ==
    \E tag \in DecTags, total \in 2..MaxTotal :
        /\ sends < MaxMessages
        /\ stream = <<>>
        /\ stream' = MessageFrames(sends + 1, total, tag)
        /\ sends' = sends + 1
        /\ last' = [op |-> "peer_send", tag |-> tag, total |-> total]
        /\ UNCHANGED ext_vars
        /\ UNCHANGED <<nack_tag, ack_tag, buffers, processed_data, ack_stream,
                       record, hist>>
        /\ UNCHANGED <<immediate_queue, high_priority_queue, low_priority_queue,
                       pending_acks, high_priority_count, monitor_errors>>

\* the radio loses the frame that is next on the air
Lose ==
    /\ Len(stream) > 0
    /\ stream' = Tail(stream)
    /\ last' = [op |-> "lost", msg |-> Head(stream)]
    /\ UNCHANGED ext_vars
    /\ UNCHANGED <<nack_tag, ack_tag, buffers, processed_data, ack_stream,
                   record, hist>>
    /\ UNCHANGED svc_vars

\* the frame that is next on the air reaches the codec's process loop
Arrive ==
    /\ Len(stream) > 0
    /\ ProcessInbound(Head(stream))
    /\ stream' = Tail(stream)
    /\ UNCHANGED ext_vars
    /\ UNCHANGED <<nack_tag, ack_tag, record, hist>>
    /\ UNCHANGED <<immediate_queue, high_priority_queue, low_priority_queue,
                   high_priority_count, monitor_errors, sends>>

NextReuse == PeerSend \/ Lose \/ Arrive \/ ReceiveHandler \/ SendAckTask

SpecReuse == InitReuse /\ [][NextReuse]_vars

\* C20: when the first fragment (count=1) of a new message arrives for a tag
\* that still has a buffer of an earlier message, the same total included, the
\* buffer is cleared first: afterwards it holds that fragment alone, and every
\* text the decoder emits is the text of one message of the peer.
C20_StaleBufferCleared ==
    (last.op = "packet_in" /\ last.packet.ok) =>
        /\ (last.packet.count = 1 /\ last.packet.tag \in DOMAIN last.before) =>
              /\ last.packet.tag \in DOMAIN buffers
              /\ buffers[last.packet.tag] =
                     [received |-> 1, total |-> last.packet.total,
                      slots |-> [EmptySlots(last.packet.total)
                                     EXCEPT ![1] = last.packet.data]]
        /\ \A i \in 1..Len(last.emit) :
              \E k \in 1..MaxMessages, total \in 2..MaxTotal :
                  last.emit[i] = MessageText(k, total)

----------------------------------------------------------------------------
(* The alert engine: MonitorAlerts (components/qsgrc/alerts/core.py)          *)

\* AlertConditions
Conditions == {"GT", "GTE", "LT", "LTE", "EQ", "REMOVE"}

Compare_GTIsGTE(condition, value, threshold) ==
    IF condition \in {"GT", "GTE"} THEN value >= threshold
    ELSE IF condition = "LT" THEN value < threshold
    ELSE IF condition = "LTE" THEN value <= threshold
    ELSE IF condition = "EQ" THEN value = threshold
    ELSE FALSE

\* the chain of ifs that computes alert in check(); REMOVE matches none of them
Compare(condition, value, threshold) ==
    IF condition = "GT" THEN value > threshold
    ELSE IF condition = "GTE" THEN value >= threshold
    ELSE IF condition = "LT" THEN value < threshold
    ELSE IF condition = "LTE" THEN value <= threshold
    ELSE IF condition = "EQ" THEN value = threshold
    ELSE FALSE

\* self.alert_conditions.get(listen_to, False)
ConditionOf(table, key) == IF key \in DOMAIN table THEN table[key] ELSE FALSE

\* __send_alert_update(listen_to, value): the record put on out_stream, built
\* from the condition table as it is at the call
AlertUpdate(table, key, value) ==
    [listen_to |-> key, triggered |-> ConditionOf(table, key), val |-> value]

CheckOutcome_HoldIgnored(rule_table, table, key, value) ==
    IF key \notin DOMAIN rule_table
    THEN [conditions |-> table, emit |-> <<>>]
    ELSE LET rule == rule_table[key]
             alert == Compare(rule.condition, value, rule.threshold)
         IN  IF ConditionOf(table, key)
             THEN IF alert
                  THEN [conditions |-> table, emit |-> <<>>]
                  ELSE LET cleared == Put(table, key, FALSE)
                       IN  [conditions |-> cleared,
                            emit |-> <<AlertUpdate(cleared, key, value)>>]
             ELSE IF alert
                  THEN LET fired == Put(table, key, TRUE)
                       IN  [conditions |-> fired,
                            emit |-> <<AlertUpdate(fired, key, value)>>]
                  ELSE [conditions |-> table, emit |-> <<>>]

CheckOutcome_EmitsWhileFiring(rule_table, table, key, value) ==
    IF key \notin DOMAIN rule_table
    THEN [conditions |-> table, emit |-> <<>>]
    ELSE LET rule == rule_table[key]
             alert == Compare(rule.condition, value, rule.threshold)
         IN  IF ConditionOf(table, key)
             THEN IF alert
                  THEN [conditions |-> table,
                        emit |-> <<AlertUpdate(table, key, value)>>]
                  ELSE IF rule.hold
                  THEN [conditions |-> table, emit |-> <<>>]
                  ELSE LET cleared == Put(table, key, FALSE)
                       IN  [conditions |-> cleared,
                            emit |-> <<AlertUpdate(cleared, key, value)>>]
             ELSE IF alert
                  THEN LET fired == Put(table, key, TRUE)
                       IN  [conditions |-> fired,
                            emit |-> <<AlertUpdate(fired, key, value)>>]
                  ELSE [conditions |-> table, emit |-> <<>>]

\* check(listen_to, value): the condition table after the call and the records
\* it put on out_stream
CheckOutcome(rule_table, table, key, value) ==
    IF key \notin DOMAIN rule_table
    THEN [conditions |-> table, emit |-> <<>>]
    ELSE LET rule == rule_table[key]
             alert == Compare(rule.condition, value, rule.threshold)
         IN  IF ConditionOf(table, key)
             THEN IF alert
                  THEN [conditions |-> table, emit |-> <<>>]
                  ELSE IF rule.hold
                  THEN [conditions |-> table, emit |-> <<>>]
                  ELSE LET cleared == Put(table, key, FALSE)
                       IN  [conditions |-> cleared,
                            emit |-> <<AlertUpdate(cleared, key, value)>>]
             ELSE IF alert
                  THEN LET fired == Put(table, key, TRUE)
                       IN  [conditions |-> fired,
                            emit |-> <<AlertUpdate(fired, key, value)>>]
                  ELSE [conditions |-> table, emit |-> <<>>]

\* the key whose samples the history follows, and a second key
WatchedKey == "rpm"
AlertKeys == {"rpm", "temp"}

\* thresholds of the rules and the sample values around a threshold
Thresholds == {3000}
SamplesAround(t) == {t - 1, t, t + 1, t + 2}
Samples == UNION {SamplesAround(t) : t \in Thresholds}

\* add_rule(listen_to, condition, threshold, hold)
RuleSet == [condition : Conditions, hold : BOOLEAN, threshold : Thresholds]

\* the engine after add_rule for the watched key, the second key with the same
\* rule or with none
InitAlertRules ==
    /\ \E r \in RuleSet : \/ rules = [k \in {WatchedKey} |-> r]
                          \/ rules = [k \in AlertKeys |-> r]
    /\ alert_conditions = <<>>
    /\ out_stream = <<>>

InitAlert ==
    /\ InitCodec /\ InitService /\ InitAlertRules /\ InitRadio /\ InitStarted
    /\ InitMonitors
    /\ last = NoOp
    /\ hist = NoHist

\* the inputs of the edge scenario around the threshold of the watched key
EdgeInputs == LET t == IF WatchedKey \in DOMAIN rules
                       THEN rules[WatchedKey].threshold ELSE 0
              IN  <<t - 1, t + 1, t + 2, t - 1, t + 1>>

\* the history once the samples have left the scenario (until the next clear)
OffScenario == <<0>>

\* the samples so far are the start of the scenario and value is its next input
Follows(samples, value) ==
    /\ Len(samples) < Len(EdgeInputs)
    /\ samples = SubSeq(EdgeInputs, 1, Len(samples))
    /\ value = EdgeInputs[Len(samples) + 1]

\* one sample taken from in_stream by __loop and checked, once the consumer has
\* taken the record of the sample before
Check ==
    \E key \in AlertKeys, value \in Samples :
        LET o == CheckOutcome(rules, alert_conditions, key, value)
        IN  /\ out_stream = <<>>
            /\ alert_conditions' = o.conditions
            /\ out_stream' = out_stream \o o.emit
            /\ last' = [op |-> "check", key |-> key, value |-> value,
                        before |-> alert_conditions, emit |-> o.emit]
            /\ hist' = IF key # WatchedKey THEN hist
                       ELSE IF Follows(hist.samples, value)
                       THEN [hist EXCEPT
                               !.samples = Append(@, value),
                               !.conds = Append(@, ConditionOf(o.conditions, key)),
                               !.outs = Append(@, o.emit)]
                       ELSE [hist EXCEPT !.samples = OffScenario]
            /\ UNCHANGED rules
            /\ UNCHANGED <<link_vars, radio_vars, run_vars, cmd_vars, mon_vars>>

ClearAlertCondition_SetsFalse ==
    \E key \in AlertKeys :
        LET cleared == Put(alert_conditions, key, FALSE)
        IN  /\ out_stream = <<>>
            /\ alert_conditions' = cleared
            /\ out_stream' = Append(out_stream, AlertUpdate(cleared, key, 0))
            /\ last' = [op |-> "clear", key |-> key, before |-> alert_conditions]
            /\ hist' = IF key = WatchedKey
                       THEN [hist EXCEPT !.samples = <<>>, !.conds = <<>>,
                                         !.outs = <<>>]
                       ELSE hist
            /\ UNCHANGED rules
            /\ UNCHANGED <<link_vars, radio_vars, run_vars, cmd_vars, mon_vars>>

\* clear_alert_condition(listen_to): the condition is deleted and a record with
\* value 0 is emitted
ClearAlertCondition ==
    \E key \in AlertKeys :
        LET cleared == Remove(alert_conditions, key)
        IN  /\ out_stream = <<>>
            /\ alert_conditions' = cleared
            /\ out_stream' = Append(out_stream, AlertUpdate(cleared, key, 0))
            /\ last' = [op |-> "clear", key |-> key, before |-> alert_conditions]
            /\ hist' = IF key = WatchedKey
                       THEN [hist EXCEPT !.samples = <<>>, !.conds = <<>>,
                                         !.outs = <<>>]
                       ELSE hist
            /\ UNCHANGED rules
            /\ UNCHANGED <<link_vars, radio_vars, run_vars, cmd_vars, mon_vars>>

ClearAll_KeepsOthers ==
    /\ alert_conditions # <<>>
    /\ alert_conditions' = Remove(alert_conditions, WatchedKey)
    /\ last' = [op |-> "clear_all", before |-> alert_conditions]
    /\ hist' = [hist EXCEPT !.samples = <<>>, !.conds = <<>>, !.outs = <<>>]
    /\ UNCHANGED <<rules, out_stream>>
    /\ UNCHANGED <<link_vars, radio_vars, run_vars, cmd_vars, mon_vars>>

\* clear_all_alert_conditions()
ClearAll ==
    /\ alert_conditions # <<>>
    /\ alert_conditions' = <<>>
    /\ last' = [op |-> "clear_all", before |-> alert_conditions]
    /\ hist' = [hist EXCEPT !.samples = <<>>, !.conds = <<>>, !.outs = <<>>]
    /\ UNCHANGED <<rules, out_stream>>
    /\ UNCHANGED <<link_vars, radio_vars, run_vars, cmd_vars, mon_vars>>

\* the consumer of out_stream takes a record
TakeAlert ==
    /\ Len(out_stream) > 0
    /\ out_stream' = Tail(out_stream)
    /\ last' = [op |-> "take_alert", record |-> Head(out_stream)]
    /\ UNCHANGED <<rules, alert_conditions, hist>>
    /\ UNCHANGED <<link_vars, radio_vars, run_vars, cmd_vars, mon_vars>>

NextAlert == Check \/ ClearAlertCondition \/ ClearAll \/ TakeAlert

SpecAlert == InitAlert /\ [][NextAlert]_vars

\* the comparison the rule's condition names, for the five comparators
Comparator(condition, value, threshold) ==
    \/ condition = "GT" /\ value > threshold
    \/ condition = "GTE" /\ value >= threshold
    \/ condition = "LT" /\ value < threshold
    \/ condition = "LTE" /\ value <= threshold
    \/ condition = "EQ" /\ value = threshold

Latched(key) ==
    /\ key \in DOMAIN rules /\ rules[key].hold
    /\ ConditionOf(alert_conditions, key)

\* C12: with hold = true, once the condition of a key has fired, every later
\* check, whatever the sample, leaves the condition set and emits no record for
\* that key; only an explicit clear ends this.
C12_HoldLatches ==
    [][\A key \in AlertKeys :
          (Latched(key) /\ last'.op = "check") =>
              /\ ConditionOf(alert_conditions', key)
              /\ \A i \in 1..Len(out_stream') : out_stream'[i].listen_to # key]_vars

\* a latched condition has just seen a sample that does not alert and is still
\* set, and nothing was emitted
C12_Witness ==
    /\ last.op = "check" /\ last.key = WatchedKey
    /\ rules[WatchedKey].condition = "GTE" /\ rules[WatchedKey].hold
    /\ last.value = rules[WatchedKey].threshold - 1
    /\ ConditionOf(last.before, WatchedKey)
    /\ ConditionOf(alert_conditions, WatchedKey)
    /\ out_stream = <<>>

\* what the edge scenario is to give for a threshold t: the condition after
\* each input, and the records emitted at each input
EdgeConditions == <<FALSE, TRUE, TRUE, FALSE, TRUE>>

EdgeRecords(t) ==
    << <<>>,
       <<[listen_to |-> WatchedKey, triggered |-> TRUE, val |-> t + 1]>>,
       <<>>,
       <<[listen_to |-> WatchedKey, triggered |-> FALSE, val |-> t - 1]>>,
       <<[listen_to |-> WatchedKey, triggered |-> TRUE, val |-> t + 1]>> >>

----------------------------------------------------------------------------
(* The radio driver: RLYR896 (components/qsgrc/RYLR896/core.py)               *)

\* the rates set_ipr accepts
Rates == {300, 1200, 4800, 9600, 28800, 38400, 57600, 115200}

AddressOk_NoUpperBound(address) == 0 <= address

\* the range tests of the setters
AddressOk(address) == 0 <= address /\ address < 65535

NetworkIdOk(network_id) == 0 <= network_id /\ network_id <= 16

ParametersOk(spreading_factor, bandwidth, coding_rate, preamble) ==
    /\ 5 <= spreading_factor /\ spreading_factor <= 15
    /\ 0 <= bandwidth /\ bandwidth <= 9
    /\ 1 <= coding_rate /\ coding_rate <= 10
    /\ 0 <= preamble /\ preamble <= 15

PowerOk(power) == 0 <= power /\ power < 20

IprOk(rate) == rate \in Rates

\* a line written to the serial port: the AT command and its arguments
Command(cmd, args) == [cmd |-> cmd, args |-> args]

\* sha256(password.encode()).hexdigest(): 64 lower-case hex characters
HexDigest == [hex |-> TRUE, upper |-> FALSE, length |-> 64]

\* hashed[:32].upper()
PassArg == [HexDigest EXCEPT !.length = IF @ < 32 THEN @ ELSE 32, !.upper = TRUE]

\* the outcome of the part of an API call that comes before __send: the
\* exception raised ("" when none), the cached configuration after it and the
\* command handed to __send (<<>> when the call returns or raises before)
Before(raised, config, command) ==
    [raised |-> raised, config |-> config, command |-> command]

\* set_address, set_network_id, set_parameters, set_power, set_ipr, set_pass
\* and send up to their call of __send.  A payload is known by its length and
\* by whether it is ASCII.
ApiBefore(call, config) ==
    CASE call.fn = "set_address" ->
           IF ~AddressOk(call.value)
           THEN Before("ATCommandError", config, <<>>)
           ELSE IF call.value = config.address /\ ~call.force
           THEN Before("", config, <<>>)
           ELSE Before("", [config EXCEPT !.address = call.value],
                       <<Command("AT+ADDRESS", <<call.value>>)>>)
      [] call.fn = "set_network_id" ->
           IF ~NetworkIdOk(call.value)
           THEN Before("ATCommandError", config, <<>>)
           ELSE IF config.network_id = call.value /\ ~call.force
           THEN Before("", config, <<>>)
           ELSE Before("", [config EXCEPT !.network_id = call.value],
                       <<Command("AT+NETWORKID", <<call.value>>)>>)
      [] call.fn = "set_parameters" ->
           IF ~ParametersOk(call.value[1], call.value[2], call.value[3],
                            call.value[4])
           THEN Before("ATCommandError", config, <<>>)
           ELSE Before("", config, <<Command("AT+PARAMETER", call.value)>>)
      [] call.fn = "set_power" ->
           IF ~PowerOk(call.value)
           THEN Before("ATCommandError", config, <<>>)
           ELSE Before("", config, <<Command("AT+CRFOP", <<call.value>>)>>)
      [] call.fn = "set_ipr" ->
           IF ~IprOk(call.value)
           THEN Before("ATCommandError", config, <<>>)
           ELSE Before("", config, <<Command("AT+IPR", <<call.value>>)>>)
      [] call.fn = "set_pass" ->
           Before("", config, <<Command("AT+CPIN", <<PassArg>>)>>)
      [] call.fn = "send" ->
           LET address == IF 0 <= call.address /\ call.address <= 65535
                          THEN call.address ELSE 0
           IN  IF ~call.value.ascii
               THEN Before("ATCommandError", config, <<>>)
               ELSE IF call.value.length > 240
               THEN Before("TXDataOverflowError", config, <<>>)
               ELSE Before("", config,
                           <<Command("AT+SEND", <<address, call.value.length>>)>>)

\* the tests of __send before it writes (the writer exists after connect();
\* the receive loop runs from start() on)
SendCheck(pc, is_ready, ignore_ready) ==
    IF pc.at = "new" THEN "RecLoopNotRunning"
    ELSE IF ~is_ready /\ ~ignore_ready THEN "NotReady"
    ELSE ""

\* the four setter calls of start(), in program order
StartCall(k, config) ==
    CASE k = 1 -> [fn |-> "set_network_id", value |-> config.network_id,
                   force |-> TRUE]
      [] k = 2 -> [fn |-> "set_parameters",
                   value |-> <<config.spreading_factor, config.bandwidth,
                               config.coding_rate, config.preamble>>]
      [] k = 3 -> [fn |-> "set_address", value |-> config.address, force |-> TRUE]
      [] k = 4 -> [fn |-> "set_pass"]

Ping == Command("AT", <<>>)

Pings(w) == Cardinality({i \in 1..Len(w) : w[i] = Ping})

\* lines the radio module may send
LineReady == <<"+", "R", "E", "A", "D", "Y">>
LineOk == <<"+", "O", "K">>
LineErr == <<"+", "E", "R", "R", "=", "4">>
LineRcv == <<"+", "R", "C", "V", "=", "5", ",", "5", ",", "|", "5", "0", "|", "a",
             ",", "-", "9", ",", "4">>
\* the lines of the command dialogue, and a line that carries a received frame
DialogueLines == {LineReady, LineOk, LineErr}
FrameLines == {LineRcv}

IsErr(line) == StartsWith(line, <<"+", "E", "R", "R">>)

\* data.encode() + b"\r\n" written by __send, after it has emptied
\* command_response
Written(command) ==
    /\ wire' = Append(wire, command)
    /\ command_response' = <<>>

\* the history keeps the first MaxLog events of start()
Logged(event) ==
    hist' = [hist EXCEPT !.log = IF Len(@) < MaxLog THEN Append(@, event) ELSE @]

\* start(): the receive loop is launched and, ready being false, the first
\* ping is written
Start ==
    /\ radio_pc.at = "new"
    /\ ~ready
    /\ Written(Ping)
    /\ radio_pc' = [at |-> "ping_wait", k |-> 0]
    /\ Logged([ev |-> "write", cmd |-> Ping])
    /\ last' = [op |-> "start"]
    /\ UNCHANGED <<ready, radio_config, in_stream>>
    /\ UNCHANGED <<link_vars, alert_vars, run_vars, cmd_vars, mon_vars>>

Route_FramesAsReplies(line) ==
    IF StartsWith(line, <<"+", "R", "E", "A", "D", "Y">>) THEN "ready"
    ELSE "command_response"

\* the if / elif chain of __rec_loop: where a line goes
Route(line) ==
    IF IsErr(line) THEN "command_response"
    ELSE IF StartsWith(line, <<"+", "R", "E", "A", "D", "Y">>) THEN "ready"
    ELSE IF StartsWith(line, <<"+", "R", "C", "V">>) THEN "received_messages"
    ELSE "command_response"

\* __rec_loop reads one line and classifies it by its prefix
RecLineOf(lines) ==
    \E line \in lines :
        /\ radio_pc.at # "new"
        /\ CASE Route(line) = "ready" ->
                  /\ ready' = TRUE
                  /\ UNCHANGED <<command_response, in_stream>>
             [] Route(line) = "received_messages" ->
                  /\ Len(in_stream) < MaxQueue
                  /\ in_stream' = Append(in_stream, line)
                  /\ UNCHANGED <<ready, command_response>>
             [] Route(line) = "command_response" ->
                  /\ Len(command_response) < MaxQueue
                  /\ command_response' = Append(command_response, line)
                  /\ UNCHANGED <<ready, in_stream>>
        /\ last' = [op |-> "rec_line", line |-> line]
        /\ UNCHANGED <<wire, radio_pc, radio_config, hist>>
        /\ UNCHANGED <<link_vars, alert_vars, run_vars>>

\* the receive loop during the command dialogue
RecLine == RecLineOf(DialogueLines) /\ UNCHANGED <<cmd_vars, mon_vars>>

Waiting == {"ping_wait", "cfg_wait", "api_wait"}

\* __send gets a line from command_response; "+ERR" lines raise.  ping() sets
\* ready and start() goes to sleep(1); a setter of start() returns and start()
\* goes on; an API call returns or raises to its caller.
AwaitReply ==
    /\ radio_pc.at \in Waiting
    /\ Len(command_response) > 0
    /\ LET data == Head(command_response)
       IN  /\ command_response' = Tail(command_response)
           /\ ready' = IF radio_pc.at = "ping_wait" /\ ~IsErr(data)
                       THEN TRUE ELSE ready
           /\ radio_pc' =
                IF radio_pc.at = "api_wait" THEN [at |-> "done", k |-> 0]
                ELSE IF IsErr(data) THEN [at |-> "raised", k |-> radio_pc.k]
                ELSE IF radio_pc.at = "ping_wait" THEN [at |-> "ping_sleep", k |-> 0]
                ELSE IF radio_pc.k < 4 THEN [at |-> "cfg_sleep", k |-> radio_pc.k + 1]
                ELSE [at |-> "done", k |-> 0]
           /\ IF radio_pc.at = "api_wait" THEN UNCHANGED hist
              ELSE Logged([ev |-> "reply", line |-> data])
           /\ last' = [op |-> "reply", line |-> data, at |-> radio_pc.at]
    /\ UNCHANGED <<wire, radio_config, in_stream>>
    /\ UNCHANGED <<link_vars, alert_vars, run_vars, cmd_vars, mon_vars>>

\* the 5 s of __send pass without a line: TimeoutError.  ping() catches it and
\* clears ready; out of a setter of start() it ends start().
AwaitTimeout ==
    /\ radio_pc.at \in Waiting
    /\ Len(command_response) = 0
    /\ ready' = IF radio_pc.at = "ping_wait" THEN FALSE ELSE ready
    /\ radio_pc' = IF radio_pc.at = "api_wait" THEN [at |-> "done", k |-> 0]
                   ELSE IF radio_pc.at = "ping_wait"
                   THEN [at |-> "ping_sleep", k |-> 0]
                   ELSE [at |-> "raised", k |-> radio_pc.k]
    /\ IF radio_pc.at = "api_wait" THEN UNCHANGED hist
       ELSE Logged([ev |-> "timeout"])
    /\ last' = [op |-> "timeout", at |-> radio_pc.at]
    /\ UNCHANGED <<wire, command_response, radio_config, in_stream>>
    /\ UNCHANGED <<link_vars, alert_vars, run_vars, cmd_vars, mon_vars>>

\* sleep(1) of the ping loop is over: while not self.ready: ping again,
\* otherwise leave the loop for the first sleep(0.2).  The loop has no other
\* exit; wire keeps the first MaxPings pings it writes.
PingLoop ==
    /\ radio_pc.at = "ping_sleep"
    /\ IF ready
       THEN /\ radio_pc' = [at |-> "cfg_sleep", k |-> 1]
            /\ UNCHANGED <<wire, command_response, hist>>
       ELSE /\ IF Pings(wire) < MaxPings
               THEN Written(Ping)
               ELSE command_response' = <<>> /\ UNCHANGED wire
            /\ radio_pc' = [at |-> "ping_wait", k |-> 0]
            /\ Logged([ev |-> "write", cmd |-> Ping])
    /\ last' = [op |-> "ping_loop", ready |-> ready]
    /\ UNCHANGED <<ready, radio_config, in_stream>>
    /\ UNCHANGED <<link_vars, alert_vars, run_vars, cmd_vars, mon_vars>>

\* sleep(0.2) is over and start() calls its next setter, which validates,
\* caches and writes through __send
CfgSend ==
    /\ radio_pc.at = "cfg_sleep"
    /\ LET b == ApiBefore(StartCall(radio_pc.k, radio_config), radio_config)
           chk == SendCheck(radio_pc, ready, FALSE)
       IN  /\ radio_config' = b.config
           /\ IF b.raised # "" \/ chk # ""
              THEN /\ radio_pc' = [at |-> "raised", k |-> radio_pc.k]
                   /\ UNCHANGED <<wire, command_response, hist>>
              ELSE /\ Written(b.command[1])
                   /\ radio_pc' = [at |-> "cfg_wait", k |-> radio_pc.k]
                   /\ Logged([ev |-> "write", cmd |-> b.command[1]])
    /\ last' = [op |-> "cfg_send", k |-> radio_pc.k]
    /\ UNCHANGED <<ready, in_stream>>
    /\ UNCHANGED <<link_vars, alert_vars, run_vars, cmd_vars, mon_vars>>

\* values on both sides of every range test
Payloads == [length : {0, 240, 241}, ascii : BOOLEAN]

ApiCalls ==
    [fn : {"set_address"}, value : {-1, 10, 65534, 65535, 65536}, force : {FALSE}]
    \cup [fn : {"set_network_id"}, value : {-1, 3, 16, 17}, force : {FALSE}]
    \cup [fn : {"set_parameters"},
          value : {<<15, 9, 10, 15>>, <<4, 9, 4, 6>>,
                   <<16, 9, 4, 6>>, <<10, -1, 4, 6>>, <<10, 10, 4, 6>>,
                   <<10, 9, 0, 6>>, <<10, 9, 11, 6>>, <<10, 9, 4, -1>>,
                   <<10, 9, 4, 16>>}]
    \cup [fn : {"set_power"}, value : {-1, 19, 20, 21}]
    \cup [fn : {"set_ipr"}, value : {0, 9601, 115200}]
    \cup [fn : {"send"}, address : {65535, 65536}, value : Payloads]

\* a caller uses the API before start() or after it has completed
ApiCall ==
    \E call \in ApiCalls :
        LET b == ApiBefore(call, radio_config)
            chk == SendCheck(radio_pc, ready, FALSE)
            writes == b.raised = "" /\ b.command # <<>> /\ chk = ""
            raised == IF b.raised # "" THEN b.raised
                      ELSE IF b.command = <<>> THEN "" ELSE chk
        IN  /\ radio_pc.at \in {"new", "done"}
            /\ Len(wire) - Pings(wire) < MaxCommands
            /\ radio_config' = b.config
            /\ IF writes
               THEN /\ Written(b.command[1])
                    /\ radio_pc' = [at |-> "api_wait", k |-> 0]
               ELSE UNCHANGED <<wire, command_response, radio_pc>>
            /\ last' = [op |-> "api", call |-> call, raised |-> raised,
                        wrote |-> writes, at |-> radio_pc.at,
                        was_ready |-> ready, wire_before |-> wire,
                        config_before |-> radio_config]
            /\ UNCHANGED <<ready, in_stream, hist>>
            /\ UNCHANGED <<link_vars, alert_vars, run_vars, cmd_vars, mon_vars>>

InitRadioSpec ==
    /\ InitCodec /\ InitService /\ InitAlerts /\ InitRadio /\ InitConstructed
    /\ InitMonitors
    /\ last = NoOp
    /\ hist = NoHist

NextRadio ==
    \/ Start \/ RecLine \/ AwaitReply \/ AwaitTimeout \/ PingLoop \/ CfgSend
    \/ ApiCall

SpecRadio == InitRadioSpec /\ [][NextRadio]_vars

\* the configuration commands of start(), in the order of the claim
ConfigCommands == <<"AT+NETWORKID", "AT+PARAMETER", "AT+ADDRESS", "AT+CPIN">>

IsWrite(event) == event.ev = "write"

IsConfigWrite(event) == IsWrite(event) /\ event.cmd # Ping

\* a ping has succeeded before position i of the log: "AT" was written and
\* the next event is a reply that is not an error
PingSucceededBefore(log, i) ==
    \E j \in 1..(i - 2) :
        /\ IsWrite(log[j]) /\ log[j].cmd = Ping
        /\ log[j + 1].ev = "reply" /\ ~IsErr(log[j + 1].line)

\* C14: the configuration commands start() writes are, in this order,
\* AT+NETWORKID, AT+PARAMETER, AT+ADDRESS and AT+CPIN with 32 hex characters,
\* each written only after the reply to the one before it, none of them
\* before a ping has succeeded, and all four once start() has completed.
C14_StartupOrder ==
    LET log == hist.log
        writes == {i \in 1..Len(log) : IsConfigWrite(log[i])}
        nth(i) == Cardinality({j \in writes : j <= i})
    IN  /\ \A i \in writes :
              /\ nth(i) <= 4
              /\ log[i].cmd.cmd = ConfigCommands[nth(i)]
              /\ nth(i) = 4 =>
                    /\ log[i].cmd.args[1].length = 32
                    /\ log[i].cmd.args[1].hex
              /\ nth(i) > 1 => log[i - 1].ev = "reply"
              /\ PingSucceededBefore(log, i)
        /\ radio_pc.at \in {"done", "api_wait"} => Cardinality(writes) = 4

\* C15: a setter called with a value outside its range, and send() called
\* with more than 240 bytes or a non-ASCII payload, raises an error, writes
\* nothing to the serial port and leaves the cached configuration as it was.
\* The ranges are those of the radio configuration data model.
C15_RejectedBeforeWrite ==
    LET call == last.call
        OutOfRange ==
            CASE call.fn = "set_address" ->
                   ~(0 <= call.value /\ call.value <= 65535)
              [] call.fn = "set_network_id" ->
                   ~(0 <= call.value /\ call.value <= 16)
              [] call.fn = "set_parameters" ->
                   ~(/\ 5 <= call.value[1] /\ call.value[1] <= 15
                     /\ 0 <= call.value[2] /\ call.value[2] <= 9
                     /\ 1 <= call.value[3] /\ call.value[3] <= 10
                     /\ 0 <= call.value[4] /\ call.value[4] <= 15)
              [] call.fn = "set_power" -> ~(0 <= call.value /\ call.value <= 20)
              [] call.fn = "set_ipr" -> call.value \notin Rates
              [] call.fn = "send" -> call.value.length > 240 \/ ~call.value.ascii
    IN  (last.op = "api" /\ OutOfRange) =>
            /\ last.raised \in {"ATCommandError", "TXDataOverflowError"}
            /\ ~last.wrote
            /\ wire = last.wire_before
            /\ radio_config = last.config_before
            /\ radio_pc.at = last.at

\* a started, ready driver has rejected the address 65536 after a caller had
\* changed the cached address
C15_Witness ==
    /\ last.op = "api"
    /\ last.at = "done" /\ last.was_ready
    /\ last.call.fn = "set_address" /\ last.call.value = 65536
    /\ last.raised = "ATCommandError"
    /\ Len(wire) >= 5
    /\ radio_config.address = 65534

----------------------------------------------------------------------------
(* Records: components/qsgrc/messages (core.py, alerts.py, obd2.py,           *)
(* rlyr896.py, web_messages.py) and the registry of messages/__init__.py.     *)
(* A number is known by its whole value and by whether it is a float, which   *)
(* decides how str() writes it.                                               *)

Upper == {"A", "B", "C", "D", "E", "F", "G", "H", "I", "J", "K", "L", "M",
          "N", "O", "P", "Q", "R", "S", "T", "U", "V", "W", "X", "Y", "Z"}
Lower == {"a", "b", "c", "d", "e", "f", "g", "h", "i", "j", "k", "l", "m",
          "n", "o", "p", "q", "r", "s", "t", "u", "v", "w", "x", "y", "z"}

IsLeaderChar(c) == c \in Upper \/ IsDigit(c)
IsNameChar(c) == c \in Upper \/ c \in Lower \/ IsDigit(c)

\* the position of the first c in s, 0 when there is none
FirstIndex(s, c) ==
    IF \E i \in 1..Len(s) : s[i] = c
    THEN CHOOSE i \in 1..Len(s) : s[i] = c /\ \A j \in 1..(i - 1) : s[j] # c
    ELSE 0

RECURSIVE Split(_, _)
\* s.split(c)
Split(s, c) ==
    LET i == FirstIndex(s, c)
    IN  IF i = 0 THEN <<s>>
        ELSE <<SubSeq(s, 1, i - 1)>> \o Split(SubSeq(s, i + 1, Len(s)), c)

\* s.split(c, maxsplit=1)
SplitOnce(s, c) ==
    LET i == FirstIndex(s, c)
    IN  IF i = 0 THEN <<s>>
        ELSE <<SubSeq(s, 1, i - 1), SubSeq(s, i + 1, Len(s))>>

IsInt(s) == Len(s) > 0 /\ \A i \in 1..Len(s) : IsDigit(s[i])

Num(n, float) == [n |-> n, float |-> float]

\* a value that is a str where a number is expected
Text(s) == [text |-> s]

IsNum(v) == DOMAIN v = {"n", "float"}

\* f"{val}": 1500 for an int, 1500.0 for a float, a str as it is
NumText(v) ==
    IF IsNum(v) THEN IntToStr(v.n) \o (IF v.float THEN <<".", "0">> ELSE <<>>)
    ELSE v.text

\* float(s) for the texts NumText gives: digits, or digits followed by ".0"
IsFloatText(s) ==
    LET parts == Split(s, ".")
    IN  \/ IsInt(s)
        \/ Len(parts) = 2 /\ IsInt(parts[1]) /\ parts[2] = <<"0">>

ParseFloat(s) == Num(StrToInt(Split(s, ".")[1]), TRUE)

\* LEADER_REGEX.match(message): the characters before the first ":"
LEADER_REGEX(message) ==
    LET i == FirstIndex(message, ":")
    IN  IF i > 1 /\ \A j \in 1..(i - 1) : IsLeaderChar(message[j])
        THEN [ok |-> TRUE, leader |-> SubSeq(message, 1, i - 1)]
        ELSE [ok |-> FALSE, leader |-> <<>>]

\* BaseMessage.match_re.fullmatch(data): leader ":" name "=" value.  Neither
\* the leader's nor the name's character class holds its delimiter, so the
\* leader ends at the first ":" and the name at the first "=" after it.
match_re(data) ==
    LET i == FirstIndex(data, ":")
        rest == SubSeq(data, i + 1, Len(data))
        j == FirstIndex(rest, "=")
    IN  IF /\ i > 1 /\ \A k \in 1..(i - 1) : IsLeaderChar(data[k])
           /\ j > 1 /\ \A k \in 1..(j - 1) : IsNameChar(rest[k])
        THEN [ok |-> TRUE, leader |-> SubSeq(data, 1, i - 1),
              name |-> SubSeq(rest, 1, j - 1),
              value |-> SubSeq(rest, j + 1, Len(rest))]
        ELSE [ok |-> FALSE, leader |-> <<>>, name |-> <<>>, value |-> <<>>]

\* the class attributes leader and name
Leader(class) ==
    CASE class = "AlertMessage" -> <<"A">>
      [] class = "AlertConfigMessage" -> <<"A", "C">>
      [] class = "AlertConditionSet" -> <<"A", "C", "S">>
      [] class = "OBD2Datapoint" -> <<"O", "B", "D">>
      [] class = "LoRaConfigParams" -> <<"C", "L", "1">>
      [] class = "LoRaConfigPassword" -> <<"C", "L", "2">>
      [] class = "LoRaConfigNetwork" -> <<"C", "L", "3">>
      [] class = "SSEMessage" -> <<"S", "M">>

ClassName(class) ==
    CASE class = "LoRaConfigParams" -> <<"P", "A", "R", "A", "M", "S">>
      [] class = "LoRaConfigPassword" -> <<"P", "A", "S", "S">>
      [] class = "LoRaConfigNetwork" -> <<"N", "E", "T">>
      [] OTHER -> <<>>

\* AlertConditions[condition_str] and condition.name
ConditionNames ==
    [c \in Conditions \cup {"REMOVE"} |->
        CASE c = "GT" -> <<"G", "T">>
          [] c = "GTE" -> <<"G", "T", "E">>
          [] c = "LT" -> <<"L", "T">>
          [] c = "LTE" -> <<"L", "T", "E">>
          [] c = "EQ" -> <<"E", "Q">>
          [] c = "REMOVE" -> <<"R", "E", "M", "O", "V", "E">>]

\* the constructors
AlertMessage(name, listen_to, triggered, val) ==
    [class |-> "AlertMessage", name |-> name, listen_to |-> listen_to,
     triggered |-> triggered, val |-> val,
     value |-> listen_to \o <<"@">> \o (IF triggered THEN <<"1">> ELSE <<"0">>)
               \o <<"@">> \o NumText(val)]

AlertConfigMessage(name, listen_to, condition, threshold, hold) ==
    [class |-> "AlertConfigMessage", name |-> name, listen_to |-> listen_to,
     condition |-> condition, threshold |-> threshold, hold |-> hold,
     value |-> listen_to \o <<"@">> \o ConditionNames[condition] \o <<"@">>
               \o NumText(threshold) \o <<"@">>
               \o (IF hold THEN <<"1">> ELSE <<"0">>)]

\* val is whatever the caller passes: a number, or the text unpack passes
OBD2Datapoint(listen_for, val, unit) ==
    [class |-> "OBD2Datapoint", name |-> listen_for, listen_for |-> listen_for,
     val |-> val, unit |-> unit,
     value |-> NumText(val) \o <<"|">> \o unit]

LoRaConfigParams(spreading_factor, bandwidth, coding_rate, preamble) ==
    [class |-> "LoRaConfigParams", name |-> ClassName("LoRaConfigParams"),
     spreading_factor |-> spreading_factor, bandwidth |-> bandwidth,
     coding_rate |-> coding_rate, preamble |-> preamble,
     value |-> IntToStr(spreading_factor) \o <<".">> \o IntToStr(bandwidth)
               \o <<".">> \o IntToStr(coding_rate) \o <<".">>
               \o IntToStr(preamble)]

LoRaConfigNetwork(network_id, address) ==
    [class |-> "LoRaConfigNetwork", name |-> ClassName("LoRaConfigNetwork"),
     network_id |-> network_id, address |-> address,
     value |-> IntToStr(network_id) \o <<".">> \o IntToStr(address)]

SSEMessage(name, message, display_time) ==
    [class |-> "SSEMessage", name |-> name, message |-> message,
     display_time |-> display_time,
     value |-> IntToStr(display_time) \o <<"|">> \o message]

\* BaseMessage.__init__ reached through a class that keeps BaseMessage.unpack
BaseMessage(class, name, value) ==
    [class |-> class,
     name |-> IF class = "LoRaConfigPassword" THEN ClassName(class) ELSE name,
     value |-> value]

\* BaseMessage.__str__
Str(R) == Leader(R.class) \o <<":">> \o R.name \o <<"=">> \o R.value

Raised(kind) == [class |-> "raised", kind |-> kind]

\* cls.unpack(data) of each registered class
ClassUnpack(class, data) ==
    LET m == match_re(data)
    IN  IF ~m.ok \/ m.leader # Leader(class)
        THEN Raised(IF class \in {"LoRaConfigPassword", "AlertConditionSet"}
                    THEN "TypeError" ELSE "ValueError")
        ELSE
        CASE class = "AlertMessage" ->
               LET parts == Split(m.value, "@")
               IN  IF Len(parts) # 3 \/ ~IsFloatText(parts[3]) \/ ~IsInt(parts[2])
                   THEN Raised("ValueError")
                   ELSE AlertMessage(m.name, parts[1], StrToInt(parts[2]) # 0,
                                     ParseFloat(parts[3]))
          [] class = "AlertConfigMessage" ->
               LET parts == Split(m.value, "@")
               IN  IF \/ Len(parts) # 4
                      \/ ~\E c \in DOMAIN ConditionNames :
                              ConditionNames[c] = parts[2]
                      \/ ~IsFloatText(parts[3]) \/ ~IsInt(parts[4])
                   THEN Raised("ValueError")
                   ELSE AlertConfigMessage(
                            m.name, parts[1],
                            CHOOSE c \in DOMAIN ConditionNames :
                                ConditionNames[c] = parts[2],
                            ParseFloat(parts[3]), StrToInt(parts[4]) # 0)
          [] class = "OBD2Datapoint" ->
               LET parts == Split(m.value, "|")
               IN  IF Len(parts) # 2 THEN Raised("ValueError")
                   ELSE OBD2Datapoint(ClassName(class), Text(parts[1]), parts[2])
          [] class = "LoRaConfigParams" ->
               LET parts == Split(m.value, ".")
               IN  IF \/ m.name # ClassName(class) \/ Len(parts) # 4
                      \/ \E i \in 1..Len(parts) : ~IsInt(parts[i])
                   THEN Raised("ValueError")
                   ELSE LoRaConfigParams(StrToInt(parts[1]), StrToInt(parts[2]),
                                         StrToInt(parts[3]), StrToInt(parts[4]))
          [] class = "LoRaConfigNetwork" ->
               LET parts == Split(m.value, ".")
               IN  IF \/ m.name # ClassName(class) \/ Len(parts) # 2
                      \/ \E i \in 1..Len(parts) : ~IsInt(parts[i])
                   THEN Raised("ValueError")
                   ELSE LoRaConfigNetwork(StrToInt(parts[1]), StrToInt(parts[2]))
          [] class = "SSEMessage" ->
               LET parts == SplitOnce(m.value, "|")
               IN  IF Len(parts) # 2 \/ ~IsInt(parts[1])
                   THEN Raised("ValueError")
                   ELSE SSEMessage(m.name, parts[2], StrToInt(parts[1]))
          [] OTHER -> BaseMessage(class, m.name, m.value)

\* the registry, for the classes whose code is in this repository's sources
\* (the entries of OBD2ConfigMonitor and RequestConfig need modules that are
\* not part of them)
MESSAGE_REGISTERY ==
    {"AlertConditionSet", "AlertConfigMessage", "AlertMessage",
     "LoRaConfigNetwork", "LoRaConfigParams", "LoRaConfigPassword",
     "OBD2Datapoint", "SSEMessage"}

\* unpack(message) of messages/__init__.py
unpack(message) ==
    LET lead == LEADER_REGEX(message)
    IN  IF ~lead.ok THEN Raised("ValueError")
        ELSE IF ~\E class \in MESSAGE_REGISTERY : Leader(class) = lead.leader
        THEN Raised("ValueError")
        ELSE ClassUnpack(CHOOSE class \in MESSAGE_REGISTERY :
                             Leader(class) = lead.leader, message)

\* the records a host builds: names and keys of letters and digits, whole
\* values as int and as float, a message text with and without a separator
RecordNames == {<<"e">>, <<"e", "2">>}
RecordKeys == {<<"r", "p", "m">>, <<"T">>}
RecordNums == {Num(0, FALSE), Num(1500, FALSE), Num(1500, TRUE)}
RecordTexts == {<<>>, <<"b", "o", "x">>, <<"a", "|", "b">>}

Records ==
    {AlertMessage(n, <<"r", "p", "m">>, t, v) :
        n \in RecordNames, t \in BOOLEAN, v \in RecordNums}
    \cup {AlertConfigMessage(<<"e">>, <<"r", "p", "m">>, c, v, h) :
        c \in DOMAIN ConditionNames, v \in {Num(1500, FALSE), Num(1500, TRUE)},
        h \in BOOLEAN}
    \cup {OBD2Datapoint(k, v, <<"C">>) : k \in RecordKeys, v \in RecordNums}
    \cup {LoRaConfigParams(t[1], t[2], t[3], t[4]) :
        t \in {<<10, 9, 4, 6>>, <<5, 0, 1, 15>>}}
    \cup {LoRaConfigNetwork(n, a) : n \in {0, 16}, a \in {0, 65534}}
    \cup {SSEMessage(<<"p", "i", "t">>, m, d) : m \in RecordTexts, d \in {0, 15}}

InitRec ==
    /\ InitCodec /\ InitService /\ InitAlerts /\ InitRadio /\ InitConstructed
    /\ InitMonitors
    /\ last = NoOp
    /\ hist = NoHist

\* str(R): a host formats a record
Pack ==
    \E R \in Records :
        /\ last.op # "pack"
        /\ record' = Str(R)
        /\ last' = [op |-> "pack", R |-> R]
        /\ UNCHANGED <<nack_tag, ack_tag, buffers, processed_data, ack_stream,
                       stream, svc_vars, ext_vars, hist>>

\* unpack(text): the receiving host parses the text
UnpackRecord ==
    /\ last.op = "pack"
    /\ record' = <<>>
    /\ last' = [op |-> "unpack", R |-> last.R, text |-> record,
                result |-> unpack(record)]
    /\ UNCHANGED <<nack_tag, ack_tag, buffers, processed_data, ack_stream,
                   stream, svc_vars, ext_vars, hist>>

NextRec == Pack \/ UnpackRecord

SpecRec == InitRec /\ [][NextRec]_vars

\* the fields of a record other than its class and its value text; numbers
\* are compared by their value, as Python's == does
SameNumber(a, b) == IsNum(a) /\ IsNum(b) /\ a.n = b.n

SameFields(R, U) ==
    /\ U.class = R.class
    /\ U.name = R.name
    /\ CASE R.class = "AlertMessage" ->
              /\ U.listen_to = R.listen_to /\ U.triggered = R.triggered
              /\ SameNumber(U.val, R.val)
         [] R.class = "AlertConfigMessage" ->
              /\ U.listen_to = R.listen_to /\ U.condition = R.condition
              /\ SameNumber(U.threshold, R.threshold) /\ U.hold = R.hold
         [] R.class = "OBD2Datapoint" ->
              /\ U.name = R.listen_for /\ U.listen_for = R.listen_for
              /\ SameNumber(U.val, R.val) /\ U.unit = R.unit
         [] R.class = "LoRaConfigParams" ->
              /\ U.spreading_factor = R.spreading_factor
              /\ U.bandwidth = R.bandwidth
              /\ U.coding_rate = R.coding_rate /\ U.preamble = R.preamble
         [] R.class = "LoRaConfigNetwork" ->
              U.network_id = R.network_id /\ U.address = R.address
         [] R.class = "SSEMessage" ->
              U.message = R.message /\ U.display_time = R.display_time

\* C16: for every record R of the classes alert, alert-config, datapoint,
\* radio params, radio network and text message, unpack(str(R)) is a record
\* of the same class with the name and the fields of R; a datapoint comes
\* back under the key it was built with.
C16_RecordRoundTrip ==
    last.op = "unpack" => SameFields(last.R, last.result)

----------------------------------------------------------------------------
(* The receive path of a service: LoRaService.run() starts the radio driver   *)
(* and the service tasks; the driver's receive loop feeds the queue that is   *)
(* MsgPack.in_stream.  The transmit loop and the retransmit monitor have      *)
(* nothing to send here and are left out.                                     *)

InitRun ==
    /\ InitCodec /\ InitService /\ InitAlerts /\ InitRadio /\ InitConstructed
    /\ InitMonitors
    /\ last = NoOp
    /\ hist = NoHist

\* run() after lora_con.start() has returned: running is set and the resend
\* monitor, ack, transmit and receive-handler tasks are created
RunTasks ==
    /\ radio_pc.at = "done"
    /\ ~running
    /\ running' = TRUE
    /\ tasks' = TaskNames
    /\ task_pc' = [n \in TaskNames |-> "loop"]
    /\ last' = [op |-> "run"]
    /\ UNCHANGED <<msgpack_running, stop_pc, hist>>
    /\ UNCHANGED <<link_vars, alert_vars, radio_vars, cmd_vars, mon_vars>>

\* the driver's receive loop reads a +RCV line
RecFrame == RecLineOf(FrameLines) /\ UNCHANGED <<cmd_vars, mon_vars>>

\* MsgPack.start(): running is set and the __loop task is created.  run()
\* does not call it; a host may.
MsgPackStart ==
    /\ ~msgpack_running
    /\ msgpack_running' = TRUE
    /\ last' = [op |-> "msgpack_start"]
    /\ UNCHANGED <<running, tasks, task_pc, stop_pc, hist>>
    /\ UNCHANGED <<link_vars, alert_vars, radio_vars, cmd_vars, mon_vars>>

\* one round of MsgPack.__loop: a line of in_stream is handled, or the 0.5 s
\* of wait_for pass without one
MsgPackLoop ==
    /\ msgpack_running
    /\ IF Len(in_stream) > 0
       THEN /\ ProcessInbound(Head(in_stream))
            /\ in_stream' = Tail(in_stream)
       ELSE /\ last' = [op |-> "loop_timeout"]
            /\ UNCHANGED <<in_stream, buffers, processed_data, ack_stream,
                           pending_acks>>
    /\ UNCHANGED <<nack_tag, ack_tag, stream, record, hist>>
    /\ UNCHANGED <<immediate_queue, high_priority_queue, low_priority_queue,
                   high_priority_count, monitor_errors, sends>>
    /\ UNCHANGED <<ready, wire, command_response, radio_pc, radio_config>>
    /\ UNCHANGED <<alert_vars, run_vars, cmd_vars, mon_vars>>

\* one round of __receive_handler_task: a record text is unpacked and put on
\* received_messages, or the 0.5 s of wait_for pass
ReceiveHandlerLoop ==
    /\ running
    /\ IF Len(processed_data) > 0
       THEN /\ processed_data' = Tail(processed_data)
            /\ last' = [op |-> "handler", data |-> Head(processed_data),
                        message |-> unpack(Head(processed_data))]
       ELSE /\ last' = [op |-> "handler_timeout"]
            /\ UNCHANGED processed_data
    /\ UNCHANGED <<nack_tag, ack_tag, buffers, ack_stream, stream, record, hist>>
    /\ UNCHANGED <<svc_vars, ext_vars>>

\* one round of __send_ack_task: a tag of acks_to_send becomes an ACK line on
\* the IMMEDIATE queue, or the 0.5 s of wait_for pass
SendAckLoop ==
    /\ running
    /\ IF Len(ack_stream) > 0
       THEN /\ ack_stream' = Tail(ack_stream)
            /\ immediate_queue' = Append(immediate_queue, AckStr(Head(ack_stream)))
            /\ last' = [op |-> "send_ack", tag |-> Head(ack_stream)]
       ELSE /\ last' = [op |-> "send_ack_timeout"]
            /\ UNCHANGED <<ack_stream, immediate_queue>>
    /\ UNCHANGED <<nack_tag, ack_tag, buffers, processed_data, stream, record, hist>>
    /\ UNCHANGED <<high_priority_queue, low_priority_queue, pending_acks,
                   high_priority_count, monitor_errors, sends>>
    /\ UNCHANGED ext_vars

NextRun ==
    \/ Start \/ RecLine \/ AwaitReply \/ AwaitTimeout \/ PingLoop \/ CfgSend
    \/ RunTasks \/ RecFrame \/ MsgPackStart \/ MsgPackLoop
    \/ ReceiveHandlerLoop \/ SendAckLoop

SpecRun == InitRun /\ [][NextRun]_vars

\* every step of start(), of run() and of a created task is taken when it
\* stays possible; lines off the radio and a host's MsgPack.start() are not
\* owed
FairRun ==
    /\ SpecRun
    /\ WF_vars(AwaitReply) /\ WF_vars(AwaitTimeout) /\ WF_vars(PingLoop)
    /\ WF_vars(CfgSend) /\ WF_vars(RunTasks) /\ WF_vars(MsgPackLoop)
    /\ WF_vars(ReceiveHandlerLoop) /\ WF_vars(SendAckLoop)

\* the data frame |50|a of LineRcv waits on the driver's receive channel
FramePushed == running /\ Len(in_stream) > 0

\* C17: in a service that has completed run(), a complete data frame the
\* driver pushes on its receive channel is eventually decoded: its record
\* text reaches the receive handler and, its tag being 50, the line ACK:50
\* reaches the IMMEDIATE queue.
C17_PushedFrameDecoded ==
    /\ FramePushed ~> (last.op = "handler" /\ last.data = <<"a">>)
    /\ FramePushed ~>
           (\E i \in 1..Len(immediate_queue) :
                immediate_queue[i] = AckStr(ack_threshold))

\* C27: for every line +RCV=<src>,<len>,<payload>,<rssi>,<snr> read by the
\* receive loop, the item pushed on the received-frames channel consumed by the
\* codec is exactly <payload>, the frame text of <len> characters, without the
\* +RCV= prefix and without the src, len, rssi and snr fields.
C27_PayloadPushed ==
    (last.op = "rec_line" /\ StartsWith(last.line, <<"+", "R", "C", "V", "=">>)) =>
        LET fields == SubSeq(last.line, 6, Len(last.line))
            after_src == SplitOnce(fields, ",")[2]
            len == StrToInt(SplitOnce(after_src, ",")[1])
            payload == SubSeq(SplitOnce(after_src, ",")[2], 1, len)
        IN  /\ Len(in_stream) > 0
            /\ in_stream[Len(in_stream)] = payload

----------------------------------------------------------------------------
(* The command path with two callers: after start() has completed, the       *)
(* transmit loop sends frames while a host reads the transmit power; the     *)
(* radio module answers the commands in the order it got them, in time or    *)
(* late                                                                      *)

\* the command each caller hands to __send: send(address, data) of the
\* transmit loop and get_power() of the host
CallerCommand(c) ==
    IF c = "transmit_task"
    THEN ApiBefore([fn |-> "send", address |-> 0,
                    value |-> [length |-> 5, ascii |-> TRUE]], radio_config).command[1]
    ELSE Command("AT+CRFOP?", <<>>)

LinePower == <<"+", "C", "R", "F", "O", "P", "=", "1", "5">>

\* the line the radio module answers a command with when it accepts it
AnswerTo(command) == IF command.cmd = "AT+CRFOP?" THEN LinePower ELSE LineOk

CanAcquire_Barging(locked, waiting) == TRUE

\* async with self.send_lock: the lock is taken at once when it is free and no
\* task waits for it
CanAcquire(locked, waiting) == ~locked /\ ~waiting

InFlight == {c \in Callers : callers[c].at = "wait"}

\* inside the lock: command_response is emptied and the command is written
Enter(c, command) ==
    /\ send_lock' = TRUE
    /\ Written(command)
    /\ radio_owed' = Append(radio_owed, command)
    /\ callers' = [callers EXCEPT ![c] = [at |-> "wait", command |-> command]]

\* a caller enters __send: the tests pass, then it takes the lock and writes,
\* or waits for the lock
CallSend ==
    \E c \in Callers :
        LET command == CallerCommand(c)
        IN  /\ callers[c].at = "idle"
            /\ SendCheck(radio_pc, ready, FALSE) = ""
            /\ Len(wire) < MaxCommands
            /\ IF CanAcquire(send_lock, \E d \in Callers : callers[d].at = "blocked")
               THEN Enter(c, command)
               ELSE /\ callers' = [callers EXCEPT
                                      ![c] = [at |-> "blocked", command |-> command]]
                    /\ UNCHANGED <<send_lock, wire, command_response, radio_owed>>
            /\ last' = [op |-> "call", caller |-> c, command |-> command]
            /\ UNCHANGED <<ready, radio_pc, radio_config, in_stream, hist>>
            /\ UNCHANGED <<link_vars, alert_vars, run_vars, mon_vars>>

\* the lock is free and goes to the caller that waits for it
LockGranted ==
    \E c \in Callers :
        /\ callers[c].at = "blocked"
        /\ ~send_lock
        /\ Enter(c, callers[c].command)
        /\ last' = [op |-> "granted", caller |-> c, command |-> callers[c].command]
        /\ UNCHANGED <<ready, radio_pc, radio_config, in_stream, hist>>
        /\ UNCHANGED <<link_vars, alert_vars, run_vars, mon_vars>>

\* command_response.get() gives a line within the 5 s: a +ERR line is raised,
\* any other line is returned; the lock is released on the way out
CallReply ==
    \E c \in InFlight :
        /\ Len(command_response) > 0
        /\ command_response' = Tail(command_response)
        /\ send_lock' = FALSE
        /\ callers' = [callers EXCEPT ![c] = Idle]
        /\ last' = [op |-> "cmd_reply", caller |-> c, command |-> callers[c].command,
                    line |-> Head(command_response),
                    raised |-> IF IsErr(Head(command_response))
                               THEN "ATCommandError" ELSE ""]
        /\ UNCHANGED <<ready, wire, radio_pc, radio_config, in_stream, radio_owed,
                       hist>>
        /\ UNCHANGED <<link_vars, alert_vars, run_vars, mon_vars>>

\* the 5 s pass without a line: TimeoutError leaves the lock
CallTimeout ==
    \E c \in InFlight :
        /\ Len(command_response) = 0
        /\ send_lock' = FALSE
        /\ callers' = [callers EXCEPT ![c] = Idle]
        /\ last' = [op |-> "cmd_timeout", caller |-> c,
                    command |-> callers[c].command, raised |-> "TimeoutError"]
        /\ UNCHANGED <<ready, wire, command_response, radio_pc, radio_config,
                       in_stream, radio_owed, hist>>
        /\ UNCHANGED <<link_vars, alert_vars, run_vars, mon_vars>>

\* the radio module answers the oldest command it has not answered, with the
\* command's answer or with an error, and the receive loop reads the line
RadioReply ==
    /\ Len(radio_owed) > 0
    /\ RecLineOf({AnswerTo(Head(radio_owed)), LineErr})
    /\ radio_owed' = Tail(radio_owed)
    /\ UNCHANGED <<send_lock, callers, mon_vars>>

\* the driver after a completed start(); wire lists the commands written from
\* here on
InitLock ==
    /\ InitCodec /\ InitService /\ InitAlerts /\ InitStarted /\ InitCommands
    /\ InitMonitors
    /\ ready = TRUE
    /\ wire = <<>>
    /\ command_response = <<>>
    /\ radio_pc = [at |-> "done", k |-> 0]
    /\ radio_config = [address |-> 10, network_id |-> 3, spreading_factor |-> 10,
                       bandwidth |-> 9, coding_rate |-> 4, preamble |-> 6]
    /\ in_stream = <<>>
    /\ last = NoOp
    /\ hist = NoHist

NextLock ==
    \/ CallSend \/ LockGranted \/ CallReply \/ CallTimeout \/ RadioReply
    \/ RecFrame

SpecLock == InitLock /\ [][NextLock]_vars

\* C28: at most one AT command is in flight at any time: between a command
\* being written to the serial port and its reply, error or timeout being
\* returned, no other caller's command is written; and the send mutex is free
\* again after every exit of the command path (reply returned, +ERR raised,
\* timeout raised).
C28_OneCommandInFlight ==
    [][/\ wire' # wire => InFlight = {}
       /\ Cardinality({c \in Callers : callers'[c].at = "wait"}) <= 1
       /\ last'.op \in {"cmd_reply", "cmd_timeout"} => ~send_lock'
      ]_vars

\* a command has timed out while the other caller waited for the lock: the
\* lock is free and nothing is in flight
C28_Witness ==
    /\ last.op = "cmd_timeout"
    /\ ~send_lock /\ InFlight = {}
    /\ \E c \in Callers : callers[c].at = "blocked"
    /\ Len(wire) = 1

\* C29: the reply line returned to the caller of a command is a line the radio
\* emitted in response to that command: a reply to an earlier command that had
\* already timed out is never returned as the reply (or raised as the error)
\* of a later command.  The answers to the two commands differ, so a line
\* handed to a caller is an answer to its command only if it is the answer the
\* radio gives to that command, or an error.
C29_ReplyAnswersItsCommand ==
    last.op = "cmd_reply" => last.line \in {AnswerTo(last.command), LineErr}

C31_StartTerminates ==
    (radio_pc.at # "new") ~> (radio_pc.at \in {"done", "raised"})

\* C32: if set_address or set_network_id fails after validation (driver not
\* ready, receive loop not running, reply timeout or +ERR reply), the driver's
\* cached address or network id keeps the value it had before the call, so
\* that repeating the same call sends the command again.  Stated for the
\* failures that happen before the command is written.
C32_CacheKeptOnFailure ==
    (/\ last.op = "api"
     /\ last.call.fn \in {"set_address", "set_network_id"}
     /\ last.raised \in {"NotReady", "RecLoopNotRunning"}) =>
        radio_config = last.config_before

\* C33: the setters accept exactly the ranges of the radio configuration data
\* model: set_address every address in [0,65535], set_power every power in
\* [0,20], set_network_id every id in [0,16], set_parameters every tuple with
\* spreading factor in [5,15], bandwidth in [0,9], coding rate in [1,10] and
\* preamble in [0,15]; each rejects (ATCommandError) every value outside.
C33_SettersAcceptDataModelRanges ==
    LET v == last.call.value
        InModel ==
            CASE last.call.fn = "set_address" -> v \in 0..65535
              [] last.call.fn = "set_power" -> v \in 0..20
              [] last.call.fn = "set_network_id" -> v \in 0..16
              [] last.call.fn = "set_parameters" ->
                   /\ v[1] \in 5..15 /\ v[2] \in 0..9
                   /\ v[3] \in 1..10 /\ v[4] \in 0..15
    IN  (/\ last.op = "api"
         /\ last.call.fn \in {"set_address", "set_power", "set_network_id",
                              "set_parameters"}) =>
            ((last.raised # "ATCommandError") <=> InModel)

\* the line just handled matched neither the ACK grammar nor PACKET_REGEX
Unparsed ==
    \/ last.op = "packet_in" /\ ~last.packet.ok
    \/ last.op = "ack_in" /\ last.tag < 0

\* C34: a frame text that fails to parse (neither the ACK grammar nor the
\* data-frame grammar) is dropped: handling it emits nothing, pushes no tag to
\* the ack channel and leaves every reassembly buffer (and the pending-ack
\* table) as it was; the process loop is left able to take the next line.
C34_UnparsedDropped ==
    [][(last' # last /\ Unparsed') =>
          /\ UNCHANGED <<buffers, processed_data, ack_stream, pending_acks>>
          /\ UNCHANGED <<running, msgpack_running>>]_vars

\* a line that is no frame has just been handled while both tags had a
\* reassembly buffer in progress, and the buffers are still there
C34_Witness ==
    /\ last.op = "packet_in" /\ ~last.packet.ok
    /\ last.exc = "ValueError"
    /\ DOMAIN last.before = DecTags
    /\ buffers = last.before
    /\ processed_data = <<>> /\ ack_stream = <<>>

----------------------------------------------------------------------------
(* The length of the frames with the default settings: what                 *)
(* split_messages_to_queue puts on the stream for a record text of a given  *)
(* length, and what RLYR896.send makes of each frame                        *)

\* MsgPack.split_length as the class sets it
SPLIT_LENGTH == 220

\* a record text by its length: full slices of SPLIT_LENGTH characters and the
\* characters left after them (fewer than SPLIT_LENGTH)
TextLengths ==
    [full : {0, 1, 2, 9, 10, 9999999, 10000000}, tail : {0, 1, SPLIT_LENGTH - 1}]

\* data_length <= self.split_length
FitsOne(text) == text.full = 0 \/ (text.full = 1 /\ text.tail = 0)

\* len(packets) once the while loop has emptied rest
TotalOf(text) == text.full + (IF text.tail > 0 THEN 1 ELSE 0)

\* len(packet) of the count-th slice; the whole text for count = 0
SliceLength(text, count) ==
    IF count = 0 THEN (IF text.full = 0 THEN text.tail ELSE SPLIT_LENGTH)
    ELSE IF count <= text.full THEN SPLIT_LENGTH ELSE text.tail

\* len(str(Packet(count, total, tag, packet)))
FrameLength(count, total, tag, length) ==
    Len(PacketStr(count, total, tag, <<>>)) + length

\* the first, the last and the last but one frame of a text
CountsOf(text) ==
    IF FitsOne(text) THEN {0}
    ELSE {1, TotalOf(text) - 1, TotalOf(text)} \cap 1..TotalOf(text)

\* split_messages_to_queue(data, stream, ack_needed) for a text of the given
\* length, and one of the frames it put on the stream handed to RLYR896.send
EncodeLength ==
    \E text \in TextLengths, ack \in BOOLEAN :
        \E count \in CountsOf(text) :
            LET tag == GetTag(ack)
                total == IF count = 0 THEN 0 ELSE TotalOf(text)
                data_length == SliceLength(text, count)
                length == FrameLength(count, total, tag, data_length)
                sent == ApiBefore([fn |-> "send", address |-> 0,
                                   value |-> [length |-> length, ascii |-> TRUE]],
                                  radio_config)
            IN  /\ sends < MaxEncodes
                /\ sends' = sends + 1
                /\ AdvanceTag(ack)
                /\ last' = [op |-> "frame", text |-> text, tag |-> tag,
                            count |-> count, total |-> total,
                            data_length |-> data_length, length |-> length,
                            raised |-> sent.raised]
                /\ UNCHANGED ext_vars
                /\ UNCHANGED <<buffers, processed_data, ack_stream, stream,
                               record, hist>>
                /\ UNCHANGED <<immediate_queue, high_priority_queue,
                               low_priority_queue, pending_acks,
                               high_priority_count, monitor_errors>>

NextLength == EncodeLength

SpecLength == InitDec /\ [][NextLength]_vars

\* every frame carries at most SPLIT_LENGTH characters of data, is at most
\* 240 characters long and passes the length test of send
FrameFits ==
    /\ last.data_length <= SPLIT_LENGTH
    /\ last.length <= 240
    /\ last.raised = ""

\* for a record text that splits into fewer than 10,000,000 frames (count and
\* total of at most seven digits each) every frame fits
FrameFitsUpTo ==
    (last.op = "frame" /\ last.total < 10000000) => FrameFits

----------------------------------------------------------------------------
(* Shutdown: LoRaService.stop() next to the four tasks run() has created,    *)
(* with a caller of transmit().  The part of the radio driver in a send is   *)
(* its duration: the transmit task is inside lora_con.send until the reply,  *)
(* the error or the 5 s of __send.  No pending-ack entry expires here.       *)

InitStop ==
    /\ InitLock

\* a caller of transmit(data, True, priority)
StopSend ==
    \E d \in TxTexts, pr \in Priorities :
        /\ sends <= MaxPending
        /\ Transmit(d, TRUE, pr)

\* while self.running: the round of a task that stands at the head of its loop
AtLoop(n) == running /\ task_pc[n] = "loop"

MonitorRound == AtLoop("resend_monitor") /\ ResendMonitor

AckRound == AtLoop("send_ack") /\ SendAckLoop

HandlerRound == AtLoop("receive_handler") /\ ReceiveHandlerLoop

\* a round of the transmit task: with a frame selected the task is inside
\* lora_con.send, else it has slept 0.25 s and is back at the head of the loop
TransmitLoop ==
    /\ AtLoop("transmit")
    /\ TransmitRound
    /\ task_pc' = [task_pc EXCEPT !["transmit"] =
                      IF last'.op = "send" THEN "send" ELSE "loop"]
    /\ UNCHANGED <<running, msgpack_running, tasks, stop_pc>>
    /\ UNCHANGED <<alert_vars, radio_vars, cmd_vars, mon_vars>>

\* lora_con.send has returned or raised and the 0.1 s of pacing have passed
SendReturns ==
    /\ task_pc["transmit"] = "send"
    /\ task_pc' = [task_pc EXCEPT !["transmit"] = "loop"]
    /\ last' = [op |-> "sent"]
    /\ UNCHANGED <<running, msgpack_running, tasks, stop_pc, hist>>
    /\ UNCHANGED <<link_vars, alert_vars, radio_vars, cmd_vars, mon_vars>>

\* while self.running is false at the head of the loop: the task returns
TaskLeaves ==
    \E n \in TaskNames :
        /\ task_pc[n] = "loop"
        /\ ~running
        /\ task_pc' = [task_pc EXCEPT ![n] = "done"]
        /\ last' = [op |-> "task_done", task |-> n]
        /\ UNCHANGED <<running, msgpack_running, tasks, stop_pc, hist>>
        /\ UNCHANGED <<link_vars, alert_vars, radio_vars, cmd_vars, mon_vars>>

\* stop(): nothing when the service is not running; else running is cleared
\* and stop() waits for gather(*self.tasks), for 5 s at most
StopCall ==
    /\ IF ~running
       THEN UNCHANGED <<running, stop_pc>>
       ELSE running' = FALSE /\ stop_pc' = "gather"
    /\ last' = [op |-> "stop", was_running |-> running]
    /\ UNCHANGED <<msgpack_running, tasks, task_pc, hist>>
    /\ UNCHANGED <<link_vars, alert_vars, radio_vars, cmd_vars, mon_vars>>

Cancelled_StillLooping(pc) == pc

\* a task that is cancelled: every await of a loop stands inside its try, the
\* handler of CancelledError logs, and the test of the while, running being
\* false, ends the task
Cancelled(pc) == IF pc = "none" THEN pc ELSE "done"

\* the 5 s are over with a task not done: wait_for cancels the gather, which
\* cancels the tasks, and raises TimeoutError once they have ended
BudgetSpent ==
    /\ stop_pc = "gather"
    /\ \E n \in tasks : task_pc[n] # "done"
    /\ task_pc' = [n \in TaskNames |->
                      IF n \in tasks THEN Cancelled(task_pc[n]) ELSE task_pc[n]]
    /\ stop_pc' = "cancel"
    /\ last' = [op |-> "budget", before |-> task_pc]
    /\ UNCHANGED <<running, msgpack_running, tasks, hist>>
    /\ UNCHANGED <<link_vars, alert_vars, radio_vars, cmd_vars, mon_vars>>

\* the gather has returned, or the handler of TimeoutError has called cancel()
\* on every task: self.tasks = []
TasksCleared ==
    /\ \/ stop_pc = "gather" /\ \A n \in tasks : task_pc[n] = "done"
       \/ stop_pc = "cancel"
    /\ tasks' = {}
    /\ stop_pc' = "radio"
    /\ last' = [op |-> "tasks_cleared", cancelled |-> stop_pc = "cancel"]
    /\ UNCHANGED <<running, msgpack_running, task_pc, hist>>
    /\ UNCHANGED <<link_vars, alert_vars, radio_vars, cmd_vars, mon_vars>>

\* await self.lora_con.stop(): with the receive loop running its event is
\* cleared and a ping is written; the loop ends with the next line and clears
\* ready, or is cancelled after 5 s and leaves ready as it is
RadioStop ==
    /\ stop_pc = "radio"
    /\ stop_pc' = "stopped"
    /\ IF radio_pc.at = "new"
       THEN UNCHANGED <<ready, wire, command_response, radio_pc>>
       ELSE /\ Written(Ping)
            /\ ready' \in {FALSE, ready}
            /\ radio_pc' = [at |-> "stopped", k |-> 0]
    /\ last' = [op |-> "radio_stop", task_pc |-> task_pc]
    /\ UNCHANGED <<radio_config, in_stream, hist>>
    /\ UNCHANGED <<running, msgpack_running, tasks, task_pc>>
    /\ UNCHANGED <<link_vars, alert_vars, cmd_vars, mon_vars>>

NextStop ==
    \/ StopSend \/ MonitorRound \/ AckRound \/ HandlerRound
    \/ TransmitLoop \/ SendReturns \/ TaskLeaves
    \/ StopCall \/ BudgetSpent \/ TasksCleared \/ RadioStop

SpecStop == InitStop /\ [][NextStop]_vars

\* every step of a task and of stop() is taken when it stays possible; callers
\* of transmit() and of stop() are not owed, nor is the end of the budget
FairStop ==
    /\ SpecStop
    /\ WF_vars(MonitorRound) /\ WF_vars(AckRound) /\ WF_vars(HandlerRound)
    /\ WF_vars(TransmitLoop) /\ WF_vars(SendReturns) /\ WF_vars(TaskLeaves)
    /\ WF_vars(TasksCleared) /\ WF_vars(RadioStop)

AllTasksDone == \A n \in TaskNames : task_pc[n] = "done"

\* C36: stop() of the scheduler sets running to false, after which each of the
\* transmit, ack, retransmit-monitor and receive-handler loops leaves its loop
\* or is cancelled once the budget of 5 s is spent; the radio driver is
\* stopped only after those tasks were awaited or cancelled; and a stop()
\* on a service that is not running changes nothing.
C36_StopEndsTasksThenRadio ==
    /\ [](stop_pc # "idle" => ~running)
    /\ (stop_pc = "gather") ~> AllTasksDone
    /\ [](stop_pc \in {"radio", "stopped"} => AllTasksDone)
    /\ [](last.op = "radio_stop" => \A n \in TaskNames : last.task_pc[n] = "done")
    /\ [][(last'.op = "stop" /\ ~running) =>
              UNCHANGED <<link_vars, ext_vars, hist>>]_vars

\* a second stop() has been called after the first had cancelled the transmit
\* task inside a send, cleared the list and stopped the radio driver
C36_Witness ==
    /\ last.op = "stop" /\ ~last.was_running
    /\ stop_pc = "stopped"
    /\ radio_pc.at = "stopped"
    /\ tasks = {}
    /\ AllTasksDone

----------------------------------------------------------------------------
(* The alert engine with rules that come and go: add_rule and remove_rule    *)
(* next to check and the two clears                                          *)

\* the rules a caller adds
AddedRules == [condition : {"GT"}, hold : BOOLEAN, threshold : Thresholds]

\* the engine after add_rule for the watched key
InitRules ==
    /\ InitCodec /\ InitService /\ InitRadio /\ InitStarted
    /\ InitMonitors
    /\ \E r \in AddedRules : rules = [k \in {WatchedKey} |-> r]
    /\ alert_conditions = <<>>
    /\ out_stream = <<>>
    /\ last = NoOp
    /\ hist = NoHist

\* add_rule(listen_to, condition, threshold, hold)
AddRule ==
    \E key \in AlertKeys, r \in AddedRules :
        /\ rules' = Put(rules, key, r)
        /\ last' = [op |-> "add_rule", key |-> key, rule |-> r,
                    had_rule |-> key \in DOMAIN rules]
        /\ UNCHANGED <<alert_conditions, out_stream, hist>>
        /\ UNCHANGED <<link_vars, radio_vars, run_vars, cmd_vars, mon_vars>>

RemoveRule_ClearsCondition ==
    \E key \in AlertKeys :
        /\ rules' = Remove(rules, key)
        /\ alert_conditions' = Remove(alert_conditions, key)
        /\ last' = [op |-> "remove_rule", key |-> key,
                    raised |-> IF key \in DOMAIN rules THEN "" ELSE "KeyError"]
        /\ UNCHANGED <<out_stream, hist>>
        /\ UNCHANGED <<link_vars, radio_vars, run_vars, cmd_vars, mon_vars>>

\* remove_rule(listen_to): del self.rules[listen_to], a KeyError for a key
\* without a rule
RemoveRule ==
    \E key \in AlertKeys :
        /\ rules' = Remove(rules, key)
        /\ last' = [op |-> "remove_rule", key |-> key,
                    raised |-> IF key \in DOMAIN rules THEN "" ELSE "KeyError"]
        /\ UNCHANGED <<alert_conditions, out_stream, hist>>
        /\ UNCHANGED <<link_vars, radio_vars, run_vars, cmd_vars, mon_vars>>

NextRules ==
    \/ Check \/ ClearAlertCondition \/ ClearAll \/ TakeAlert
    \/ AddRule \/ RemoveRule

SpecRules == InitRules /\ [][NextRules]_vars

\* the sample just checked alerts under the rule of its key
Alerting(rule_table, key, value) ==
    /\ key \in DOMAIN rule_table
    /\ Comparator(rule_table[key].condition, value, rule_table[key].threshold)

\* C37: remove_rule(key) removes only the rule: the condition table is
\* unchanged and no record is emitted; add_rule changes neither; so a key that
\* was firing is still firing when a rule for it is added again, and an
\* alerting sample for it emits no new record.
C37_RemoveRuleKeepsCondition ==
    [][/\ (last' # last /\ last'.op = "remove_rule") =>
            /\ rules' = Remove(rules, last'.key)
            /\ alert_conditions' = alert_conditions
            /\ out_stream' = out_stream
       /\ (last' # last /\ last'.op = "add_rule") =>
            /\ alert_conditions' = alert_conditions
            /\ out_stream' = out_stream
       /\ (/\ last' # last /\ last'.op = "check"
           /\ ConditionOf(alert_conditions, last'.key)
           /\ Alerting(rules, last'.key, last'.value)) =>
            /\ out_stream' = out_stream
            /\ ConditionOf(alert_conditions', last'.key)]_vars

\* the watched key, which starts with a rule, had none when add_rule has just
\* given it one again, and its condition, set before the rule was removed, is
\* still set; nothing waits on out_stream
C37_Witness ==
    /\ last.op = "add_rule" /\ last.key = WatchedKey
    /\ ~last.had_rule
    /\ WatchedKey \in DOMAIN rules
    /\ ConditionOf(alert_conditions, WatchedKey)
    /\ out_stream = <<>>

\* the sample of this step alerts for a key whose condition is not set: one
\* record with triggered = true and the sample's value is emitted and the
\* condition is set
FiresAgain ==
    (/\ last' # last /\ last'.op = "check"
     /\ last'.key \notin DOMAIN alert_conditions
     /\ Alerting(rules, last'.key, last'.value)) =>
        /\ out_stream' = Append(out_stream,
                                [listen_to |-> last'.key, triggered |-> TRUE,
                                 val |-> last'.value])
        /\ alert_conditions' = Put(alert_conditions, last'.key, TRUE)

\* C38: clear_condition(key) removes the key from the condition table and
\* emits exactly one record for that key, with triggered = false and value 0;
\* with the key out of the table the next alerting sample for it emits a
\* record with triggered = true again, under a rule with hold = true too.
C38_ClearEmitsAndRearms ==
    [][/\ (last' # last /\ last'.op = "clear") =>
            /\ alert_conditions' = Remove(alert_conditions, last'.key)
            /\ out_stream' = Append(out_stream,
                                    [listen_to |-> last'.key,
                                     triggered |-> FALSE, val |-> 0])
            /\ rules' = rules
       /\ FiresAgain]_vars

\* the latched condition of the watched key (hold = true) has just been
\* cleared: the key has left the table and the record (false, 0) waits
C38_Witness ==
    /\ last.op = "clear" /\ last.key = WatchedKey
    /\ rules[WatchedKey].hold
    /\ ConditionOf(last.before, WatchedKey)
    /\ WatchedKey \notin DOMAIN alert_conditions
    /\ out_stream = <<[listen_to |-> WatchedKey, triggered |-> FALSE, val |-> 0]>>

----------------------------------------------------------------------------
(* The alert service: AlertService (bases/qsgrc/alert_service/core.py) gives *)
(* every monitor it creates its one in_stream and its one out_stream; each   *)
(* monitor's __loop takes samples from in_stream.  The publish task, which   *)
(* leaves its loop at once (run() does not set running), takes nothing from  *)
(* out_stream.                                                               *)

MonitorNames == {"engine", "brakes"}

\* the rules and the removal a configuration message asks for
ConfigRules == [condition : {"GT", "REMOVE"}, hold : {FALSE},
                threshold : Thresholds]

\* a value on each side of the threshold
ServiceSamples == UNION {{t - 1, t + 1} : t \in Thresholds}

\* MonitorAlerts(name, out_stream, in_stream) after start(); seen lists the
\* samples its check was called with and owed the samples put on in_stream
\* since it was started
NewMonitor == [rules |-> <<>>, alert_conditions |-> <<>>, running |-> TRUE,
               seen |-> <<>>, owed |-> <<>>]

\* handle_config(msg): the monitor of the message's name is created and
\* started if there is none, then its rule is added or removed
HandleConfig ==
    \E name \in MonitorNames, r \in ConfigRules :
        LET m == IF name \in DOMAIN alert_monitors
                 THEN alert_monitors[name] ELSE NewMonitor
            raised == r.condition = "REMOVE" /\ WatchedKey \notin DOMAIN m.rules
            table == IF r.condition = "REMOVE" THEN Remove(m.rules, WatchedKey)
                     ELSE Put(m.rules, WatchedKey, r)
        IN  /\ alert_monitors' = Put(alert_monitors, name, [m EXCEPT !.rules = table])
            /\ last' = [op |-> "config", name |-> name, rule |-> r,
                        raised |-> IF raised THEN "KeyError" ELSE ""]
            /\ UNCHANGED <<sample_stream, hist>>
            /\ UNCHANGED <<link_vars, alert_vars, radio_vars, run_vars, cmd_vars>>

\* a sample for the watched key is put on in_stream
PutSample ==
    \E value \in ServiceSamples :
        /\ Len(sample_stream) < MaxMessages
        /\ \A n \in DOMAIN alert_monitors :
               Len(alert_monitors[n].owed) < MaxMessages
        /\ sample_stream' = Append(sample_stream, <<WatchedKey, value>>)
        /\ alert_monitors' =
               [n \in DOMAIN alert_monitors |->
                   [alert_monitors[n] EXCEPT !.owed = Append(@, <<WatchedKey, value>>)]]
        /\ last' = [op |-> "sample", value |-> value]
        /\ UNCHANGED hist
        /\ UNCHANGED <<link_vars, alert_vars, radio_vars, run_vars, cmd_vars>>

\* one round of the __loop of a monitor: in_stream.get() gives the oldest
\* sample, which check() evaluates under this monitor's rules
MonitorLoop ==
    \E name \in DOMAIN alert_monitors :
        LET m == alert_monitors[name]
            sample == Head(sample_stream)
            o == CheckOutcome(m.rules, m.alert_conditions, sample[1], sample[2])
        IN  /\ m.running
            /\ Len(sample_stream) > 0
            /\ sample_stream' = Tail(sample_stream)
            /\ alert_monitors' =
                   [alert_monitors EXCEPT ![name] =
                       [m EXCEPT !.alert_conditions = o.conditions,
                                 !.seen = Append(@, sample)]]
            /\ out_stream' = out_stream \o o.emit
            /\ last' = [op |-> "monitor_check", name |-> name, sample |-> sample,
                        emit |-> o.emit]
            /\ UNCHANGED <<rules, alert_conditions, hist>>
            /\ UNCHANGED <<link_vars, radio_vars, run_vars, cmd_vars>>

NextMonitors == HandleConfig \/ PutSample \/ MonitorLoop

SpecMonitors == InitDec /\ [][NextMonitors]_vars

\* C40: when the alert service has started several monitors, every sample put
\* on the input channel is evaluated by the check of every one of them: once
\* the channel is empty, each monitor has seen all the samples put on it since
\* the monitor was started; no sample is consumed by one monitor only.
C40_EveryMonitorSeesEverySample ==
    sample_stream = <<>> =>
        \A n \in DOMAIN alert_monitors :
            alert_monitors[n].seen = alert_monitors[n].owed

====
